---- MODULE Spec2Model ----
(***************************************************************************)
(* The versioned item store of grimoire (src/db/items.rs, src/db/schema.rs, *)
(* src/db/settings.rs): the SQLite tables items, item_versions, items_fts   *)
(* and settings, and the ItemStore / SettingsStore operations on them.      *)
(* Every ItemStore call is one action: the SQL statements it executes run    *)
(* in autocommit mode, one after the other, and the triggers and foreign-    *)
(* key actions of the schema are part of the statement that fires them.      *)
(***************************************************************************)
EXTENDS Integers, Sequences, FiniteSets, Bags, TLC

(* ---- bounds of the model ---- *)
\* number of rows AUTOINCREMENT may hand out in items
MaxId == 2
\* largest number of rows in item_versions
MaxSnapshots == 2
\* largest value of CURRENT_TIMESTAMP (seconds since the store was opened)
MaxClock == 1

(* ---- values ---- *)
\* SQL NULL / Rust None for an optional text column
NULL == "<null>"
\* Option<i64>: None is the empty tuple, Some(x) the one-element tuple
None == <<>>
Some(x) == <<x>>

\* enum Category
Categories == {"Prompt", "Agent", "Skill", "Command"}

\* Category::as_str: the token stored in the category column
as_str(c) ==
    CASE c = "Prompt" -> "prompt"
      [] c = "Agent" -> "agent"
      [] c = "Skill" -> "skill"
      [] c = "Command" -> "command"

\* Category::from_str: the stored tokens are lower case already; any other
\* text falls back to Prompt
from_str(t) ==
    CASE t = "prompt" -> "Prompt"
      [] t = "agent" -> "Agent"
      [] t = "skill" -> "Skill"
      [] t = "command" -> "Command"
      [] OTHER -> "Prompt"

\* the user columns of items, in the order of the INSERT statement
UserFields ==
    {"name", "category", "description", "content", "model", "tools",
     "allowed_tools", "argument_hint", "permission_mode", "skills", "tags"}

\* the values the callers of this model put into an Item
Names == {"x", "y"}
Contents == {"hello", "world"}
Descriptions == {NULL}
TagStrings == {NULL}
UsedCategories == {"Prompt"}

\* the Items (without id) the callers pass to insert and update
Payloads ==
    [name : Names, category : UsedCategories, description : Descriptions,
     content : Contents, model : {NULL}, tools : {NULL},
     allowed_tools : {NULL}, argument_hint : {NULL},
     permission_mode : {NULL}, skills : {NULL}, tags : TagStrings]

\* the identifiers callers pass to the store
CallIds == 1 .. MaxId
CallVersions == 1 .. MaxSnapshots + 1
\* the version field of an Item the caller built itself
CallerVersions == {1}

\* the processes that have the database file open
Writers == {"w1", "w2"}

\* SearchState::default()
SearchStateDefault ==
    [query |-> <<>>, cursor_pos |-> 0, results |-> <<>>, selected_index |-> 0]

SettingKeys == {"api_key"}
SettingValues == {"k1"}

VARIABLES
    items,          \* table items: id -> row
    item_versions,  \* table item_versions: rows in rowid order
    items_fts,      \* the FTS5 index: a bag of (rowid, name, description, content, tags)
    settings,       \* table settings: the rows (key, value)
    seq,            \* sqlite_sequence entry of items (AUTOINCREMENT)
    now,            \* CURRENT_TIMESTAMP
    foreign_keys,   \* whether the connection enforces foreign keys
    search_state,   \* App.search_state: the search screen's query and results
    pending,        \* per process: the update call it is in the middle of
    app,            \* the fields of App that the key handlers read and write
    llm,            \* the background threads of run_ai_completion, one per channel
    last            \* the last ItemStore call and what it returned

vars ==
    <<items, item_versions, items_fts, settings, seq, now, foreign_keys,
      search_state, pending, app, llm, last>>
store == <<items, item_versions, items_fts, settings, seq>>

\* the user columns of a row, a snapshot or an Item
Fields(r) == [f \in UserFields |-> r[f]]

\* the values params! binds to the user columns for an Item
RowFields(item) == [Fields(item) EXCEPT !.category = as_str(item.category)]

\* the user fields of the Item built from a row or a snapshot row
ItemFields(row) == [Fields(row) EXCEPT !.category = from_str(row.category)]

\* function f without the key k
Drop(f, k) == [j \in DOMAIN f \ {k} |-> f[j]]

\* a cascade that empties item_versions
WithoutAll(s, item_id) == <<>>

\* sequence s without the rows whose item_id is item_id
RECURSIVE Without(_, _)
Without(s, item_id) ==
    IF s = <<>> THEN <<>>
    ELSE IF Head(s).item_id = item_id THEN Without(Tail(s), item_id)
    ELSE <<Head(s)>> \o Without(Tail(s), item_id)

(* ---- reads ---- *)

\* Item::from_row over the columns get selects (id, the user columns,
\* created_at, updated_at, version): the Item the store hands out
ItemOfRow(id, row) ==
    ItemFields(row) @@
    [id |-> Some(id), created_at |-> Some(row.created_at),
     updated_at |-> Some(row.updated_at), version |-> row.version]

\* a get that falls back to the history of the item
get_or_snapshot(id) ==
    IF id \in DOMAIN items THEN Some(ItemOfRow(id, items[id]))
    ELSE IF \E k \in 1 .. Len(item_versions) : item_versions[k].item_id = id
    THEN LET row == item_versions[
                        CHOOSE k \in 1 .. Len(item_versions) :
                            item_versions[k].item_id = id]
         IN  Some(ItemFields(row) @@
                  [id |-> Some(id), created_at |-> Some(row.created_at),
                   updated_at |-> Some(row.created_at), version |-> row.version])
    ELSE None

\* ItemStore::get: SELECT ... FROM items WHERE id = ?
get(id) ==
    IF id \in DOMAIN items THEN Some(ItemOfRow(id, items[id])) ELSE None

\* the positions of the snapshot rows of item_id with the given version
SnapshotsAt(item_id, version) ==
    {k \in 1 .. Len(item_versions) :
        /\ item_versions[k].item_id = item_id
        /\ item_versions[k].version = version}

\* the Item get_version builds from a snapshot row: created_at is read twice
ItemOfSnapshot(row) ==
    ItemFields(row) @@
    [id |-> Some(row.item_id), created_at |-> Some(row.created_at),
     updated_at |-> Some(row.created_at), version |-> row.version]

\* get_version with a lookup that ignores the version column
get_version_any(item_id, version) ==
    LET current == get(item_id)
        found == {k \in 1 .. Len(item_versions) :
                     item_versions[k].item_id = item_id}
    IN  IF current # None /\ current[1].version = version THEN current
        ELSE IF found = {} THEN None
        ELSE Some(ItemOfSnapshot(item_versions[
                CHOOSE k \in found : \A j \in found : k <= j]))

\* ItemStore::get_version: the current row when the version is the current
\* one, otherwise the first snapshot row with (item_id, version)
get_version(item_id, version) ==
    LET current == get(item_id)
        found == SnapshotsAt(item_id, version)
    IN  IF current # None /\ current[1].version = version THEN current
        ELSE IF found = {} THEN None
        ELSE Some(ItemOfSnapshot(item_versions[
                CHOOSE k \in found : \A j \in found : k <= j]))

\* the versions of the snapshot rows of item_id, one entry per row
SnapshotVersions(item_id) ==
    LET RECURSIVE Collect(_)
        Collect(s) ==
            IF s = <<>> THEN <<>>
            ELSE IF Head(s).item_id = item_id
                 THEN <<Head(s).version>> \o Collect(Tail(s))
                 ELSE Collect(Tail(s))
    IN  Collect(item_versions)

\* the snapshot rows of item_id, in rowid order
SnapshotsOf(item_id) ==
    SelectSeq(item_versions, LAMBDA r : r.item_id = item_id)

\* ORDER BY version DESC over snapshot rows; equal versions keep rowid order
RECURSIVE OrderByVersionDesc(_)
OrderByVersionDesc(rows) ==
    IF rows = <<>> THEN <<>>
    ELSE LET k == CHOOSE k \in 1 .. Len(rows) :
                     /\ \A j \in 1 .. Len(rows) : rows[j].version <= rows[k].version
                     /\ \A j \in 1 .. k - 1 : rows[j].version < rows[k].version
         IN  <<rows[k]>> \o
             OrderByVersionDesc(SubSeq(rows, 1, k - 1) \o
                                SubSeq(rows, k + 1, Len(rows)))

\* ItemStore::list_versions: the current version first, then the snapshots
list_versions(item_id) ==
    LET current ==
            IF item_id \in DOMAIN items
            THEN <<[version |-> items[item_id].version,
                    created_at |-> items[item_id].updated_at,
                    is_current |-> TRUE]>>
            ELSE <<>>
        historical == OrderByVersionDesc(SnapshotsOf(item_id))
    IN  current \o
        [k \in 1 .. Len(historical) |->
            [version |-> historical[k].version,
             created_at |-> historical[k].created_at,
             is_current |-> FALSE]]

\* the FTS5 entry the triggers insert or delete for a row
FtsEntry(id, row) ==
    [rowid |-> id, name |-> row.name, description |-> row.description,
     content |-> row.content, tags |-> row.tags]

\* trigger items_ai: AFTER INSERT ON items, the entry of the new row is added
items_ai(fts, id, new) == fts (+) SetToBag({FtsEntry(id, new)})

\* trigger items_ad: AFTER DELETE ON items, the 'delete' command with the
\* old values takes the entry of the row out
items_ad(fts, id, old) == fts (-) SetToBag({FtsEntry(id, old)})

\* an update trigger that adds the new entry and leaves the old one
items_au_keep_old(fts, id, old, new) == items_ai(fts, id, new)

\* a trigger body that adds the new entry before it takes the old one out
items_au_add_first(fts, id, old, new) ==
    <<items_ai(fts, id, new), items_ad(items_ai(fts, id, new), id, old)>>

\* the body of trigger items_au: the index after its first statement (the
\* 'delete' command with the old values) and after its second (the INSERT
\* of the new values)
items_au_steps(fts, id, old, new) ==
    <<items_ad(fts, id, old), items_ai(items_ad(fts, id, old), id, new)>>

\* trigger items_au: AFTER UPDATE ON items, the old entry is taken out and
\* the entry of the new values added
items_au(fts, id, old, new) == items_au_steps(fts, id, old, new)[2]

\* ItemStore::search: items joined with the index entries that MATCH the
\* query; a query is one token and every indexed column holds one token
search(query) ==
    {id \in DOMAIN items :
        \E e \in BagToSet(items_fts) :
            /\ e.rowid = id
            /\ query \in {e.name, e.description, e.content, e.tags} \ {NULL}}

(* ---- writes ---- *)

\* the record kept of a call: operation, identifier, version, outcome
Return(op, id, version, result) ==
    last' = [op |-> op, id |-> id, version |-> version, result |-> result]

\* a uniqueness check made for new rows only
UniqueViolationOnInsert(name, id) ==
    id = 0 /\ \E j \in DOMAIN items : items[j].name = name

\* no UNIQUE constraint on items.name
NoUniqueViolation(name, id) == FALSE

\* items.name is UNIQUE: a row other than id already has the name (insert
\* passes 0, which is no rowid: AUTOINCREMENT starts at 1)
UniqueViolation(name, id) ==
    \E j \in DOMAIN items : j # id /\ items[j].name = name

\* a version that is written back unchanged
SameVersion(v) == v

\* UPDATE items SET ... version = version + 1
BumpVersion(v) == v + 1

\* a snapshot taken from the Item the caller passed in
SnapshotSourceCaller(current, item) == item

\* the Item whose columns the snapshot INSERT binds: the row just read
SnapshotSource(current, item) == current

\* INSERT INTO item_versions: the columns of the source Item at its version
SnapshotRow(item_id, source) ==
    RowFields(source) @@
    [item_id |-> item_id, version |-> source.version, created_at |-> now]

\* an UPDATE that also sets created_at
UpdatedRowFresh(old, item) ==
    RowFields(item) @@
    [created_at |-> now, updated_at |-> now,
     version |-> BumpVersion(old.version)]

\* the row UPDATE items writes over old from the caller's item
UpdatedRow(old, item) ==
    RowFields(item) @@
    [created_at |-> old.created_at, updated_at |-> now,
     version |-> BumpVersion(old.version)]

\* ItemStore::update on the caller's item: the tables after the call and
\* what the call returns.  The two statements are separate autocommit
\* statements: the snapshot INSERT stays when the UPDATE is rejected.
UpdateEffect(item) ==
    IF item.id = None
    THEN [items |-> items, item_versions |-> item_versions,
          items_fts |-> items_fts, result |-> "MissingId"]
    ELSE
      LET item_id == item.id[1]
          current == get(item_id)
          snapshots ==
              IF current # None
              THEN Append(item_versions,
                          SnapshotRow(item_id, SnapshotSource(current[1], item)))
              ELSE item_versions
      IN  IF item_id \notin DOMAIN items
          THEN [items |-> items, item_versions |-> snapshots,
                items_fts |-> items_fts, result |-> "Ok"]
          ELSE IF UniqueViolation(item.name, item_id)
          THEN [items |-> items, item_versions |-> snapshots,
                items_fts |-> items_fts, result |-> "Conflict"]
          ELSE
            LET row == UpdatedRow(items[item_id], item)
            IN  [items |-> [items EXCEPT ![item_id] = row],
                 item_versions |-> snapshots,
                 items_fts |-> items_au(items_fts, item_id, items[item_id], row),
                 result |-> "Ok"]

\* the bounds an update respects in this model
WithinBounds(effect) ==
    Len(effect.item_versions) <= MaxSnapshots

\* the Item a caller holds: the payload, an optional id and its own version
CallerItem(id, payload, version) ==
    payload @@
    [id |-> id, created_at |-> None, updated_at |-> None,
     version |-> version]

\* the Items the callers pass to update
CallerItems ==
    {CallerItem(id, p, v) :
        id \in {None} \cup {Some(i) : i \in CallIds},
        p \in Payloads, v \in CallerVersions}

\* an insert that keeps the version of the caller's item
InsertedVersionOfCaller(item) == item.version

\* the version literal of the INSERT statement
InsertedVersion(item) == 1

\* the row INSERT INTO items writes for the caller's item
InsertedRow(item) ==
    RowFields(item) @@
    [created_at |-> now, updated_at |-> now, version |-> InsertedVersion(item)]

\* the rowid of an INTEGER PRIMARY KEY without AUTOINCREMENT: one more than
\* the largest rowid in the table
MaxRowidPlusOne ==
    IF DOMAIN items = {} THEN 1
    ELSE (CHOOSE m \in DOMAIN items : \A j \in DOMAIN items : j <= m) + 1

\* the rowid AUTOINCREMENT gives a new row of items: one more than the
\* largest rowid the table ever held, which sqlite_sequence records
NextRowid == seq + 1

\* ItemStore::insert
Insert(payload) ==
    /\ IF UniqueViolation(payload.name, 0)
       THEN /\ Return("insert", None, None, "Conflict")
            /\ UNCHANGED store
       ELSE /\ seq < MaxId
            /\ LET id == NextRowid
                   row == InsertedRow(payload)
               IN  /\ items' = (id :> row) @@ items
                   /\ items_fts' = items_ai(items_fts, id, row)
                   /\ seq' = id
                   /\ Return("insert", Some(id), None, "Ok")
            /\ UNCHANGED <<item_versions, settings>>
    /\ UNCHANGED <<now, foreign_keys, search_state, pending, app, llm>>

\* ItemStore::update
Update(item) ==
    LET effect == UpdateEffect(item)
    IN  /\ WithinBounds(effect)
        /\ items' = effect.items
        /\ item_versions' = effect.item_versions
        /\ items_fts' = effect.items_fts
        /\ Return("update", item.id, None, effect.result)
        /\ UNCHANGED <<settings, seq, now, foreign_keys, search_state, pending, app, llm>>

\* a delete that reports a missing row
DeleteResultStrict(id) ==
    IF id \in DOMAIN items THEN "Ok" ELSE "NotFound"

\* what ItemStore::delete returns: execute's row count is discarded
DeleteResult(id) == "Ok"

\* ItemStore::delete: DELETE FROM items WHERE id = ?, with trigger items_ad
\* and, when foreign keys are enforced, ON DELETE CASCADE on item_versions
Delete(id) ==
    /\ IF id \in DOMAIN items
       THEN /\ items' = Drop(items, id)
            /\ items_fts' = items_ad(items_fts, id, items[id])
            /\ item_versions' =
                   IF foreign_keys THEN Without(item_versions, id)
                   ELSE item_versions
       ELSE UNCHANGED <<items, items_fts, item_versions>>
    /\ Return("delete", Some(id), None, DeleteResult(id))
    /\ UNCHANGED <<settings, seq, now, foreign_keys, search_state, pending, app, llm>>

\* a restore that brings back the content of the old version and keeps the
\* other fields of the current row
RestoreContent(item_id, version) ==
    LET old_version == get_version(item_id, version)
        current == get(item_id)
    IN  /\ IF old_version = None \/ current = None
           THEN /\ Return("restore_version", Some(item_id), Some(version),
                          "NotFound")
                /\ UNCHANGED <<items, item_versions, items_fts>>
           ELSE LET effect == UpdateEffect([current[1] EXCEPT
                                  !.content = old_version[1].content])
                IN  /\ WithinBounds(effect)
                    /\ items' = effect.items
                    /\ item_versions' = effect.item_versions
                    /\ items_fts' = effect.items_fts
                    /\ Return("restore_version", Some(item_id),
                              Some(version), effect.result)
        /\ UNCHANGED <<settings, seq, now, foreign_keys, search_state, pending, app, llm>>

\* ItemStore::restore_version
RestoreVersion(item_id, version) ==
    LET old_version == get_version(item_id, version)
    IN  /\ IF old_version = None
           THEN /\ Return("restore_version", Some(item_id), Some(version),
                          "NotFound")
                /\ UNCHANGED <<items, item_versions, items_fts>>
           ELSE LET effect == UpdateEffect(old_version[1])
                IN  /\ WithinBounds(effect)
                    /\ items' = effect.items
                    /\ item_versions' = effect.item_versions
                    /\ items_fts' = effect.items_fts
                    /\ Return("restore_version", Some(item_id),
                              Some(version), effect.result)
        /\ UNCHANGED <<settings, seq, now, foreign_keys, search_state, pending, app, llm>>

\* SettingsStore::get: the value of the first row with the key, if any
settings_get(key) ==
    LET rows == {r \in settings : r.key = key}
    IN  IF rows = {} THEN None ELSE Some((CHOOSE r \in rows : TRUE).value)

\* INSERT INTO a table without a primary key: the row is added
AddRow(rows, key, value) == rows \cup {[key |-> key, value |-> value]}

\* INSERT OR REPLACE INTO settings: key is the PRIMARY KEY, so the row that
\* has the key is deleted before the new row is added
ReplaceRow(rows, key, value) ==
    {r \in rows : r.key # key} \cup {[key |-> key, value |-> value]}

\* SettingsStore::set: INSERT OR REPLACE INTO settings
SettingsSet(key, value) ==
    /\ settings' = ReplaceRow(settings, key, value)
    /\ UNCHANGED <<items, item_versions, items_fts, seq, now, foreign_keys, search_state, pending, app, llm, last>>

\* SettingsStore::delete
SettingsDelete(key) ==
    /\ \E r \in settings : r.key = key
    /\ settings' = {r \in settings : r.key # key}
    /\ UNCHANGED <<items, item_versions, items_fts, seq, now, foreign_keys, search_state, pending, app, llm, last>>

\* CURRENT_TIMESTAMP advances by a second
Tick ==
    /\ now < MaxClock
    /\ now' = now + 1
    /\ UNCHANGED <<items, item_versions, items_fts, settings, seq, foreign_keys, search_state, pending, app, llm, last>>

\* Item::default(): Item::new("", Category::Prompt, "")
ItemDefault ==
    CallerItem(None,
               [name |-> "", category |-> "Prompt", description |-> NULL,
                content |-> "", model |-> NULL, tools |-> NULL,
                allowed_tools |-> NULL, argument_hint |-> NULL,
                permission_mode |-> NULL, skills |-> NULL, tags |-> NULL],
               1)

\* EditState::new_item()
new_item ==
    [item |-> ItemDefault, is_new |-> TRUE, focused_field |-> "Name",
     cursor_pos |-> 0, has_changes |-> FALSE,
     show_category_dropdown |-> FALSE, category_dropdown_index |-> 0]

\* AiPopupState::default(), the fields the handlers branch on
AiPopupStateDefault == [is_loading |-> FALSE, result |-> None, error |-> None]

\* App::new before its refresh_data: the main screen, nothing selected, no
\* dialog, no popup, no request in flight
AppNew ==
    [should_quit |-> FALSE, screen |-> "Main", items |-> <<>>,
     selected_item_index |-> 0, pending_key |-> None, edit_state |-> new_item,
     confirm_dialog |-> None, show_ai_popup |-> FALSE,
     ai_popup_state |-> AiPopupStateDefault, llm_receiver |-> None,
     status_message |-> None]

\* Database::new followed by init_schema on a fresh file: empty tables; the
\* connection sets no PRAGMA, so foreign-key enforcement is whatever the
\* SQLite library was compiled to default to
Init ==
    /\ items = <<>>
    /\ item_versions = <<>>
    /\ items_fts = EmptyBag
    /\ settings = {}
    /\ seq = 0
    /\ now = 0
    /\ foreign_keys \in BOOLEAN
    /\ last = [op |-> "none", id |-> None, version |-> None, result |-> "Ok"]
    /\ search_state = SearchStateDefault
    /\ pending = [w \in Writers |-> None]
    /\ app = AppNew
    /\ llm = <<>>

\* the ItemStore calls that write, issued one at a time by the control thread
Next ==
    \/ \E p \in Payloads, v \in CallVersions : Insert(CallerItem(None, p, v))
    \/ \E item \in CallerItems : Update(item)
    \/ \E id \in CallIds : Delete(id)
    \/ \E id \in CallIds, v \in CallVersions : RestoreVersion(id, v)

\* the item store alone, all calls within one second of the clock
Spec == Init /\ [][Next]_vars

\* the item store together with the settings store on the same connection
NextSettings ==
    \/ Next
    \/ \E k \in SettingKeys, v \in SettingValues : SettingsSet(k, v)
    \/ \E k \in SettingKeys : SettingsDelete(k)

SpecSettings == Init /\ [][NextSettings]_vars

\* the item store while time passes between the calls
NextClock ==
    \/ Next
    \/ Tick

SpecClock == Init /\ [][NextClock]_vars

TypeOK ==
    /\ DOMAIN items \subseteq 1 .. MaxId
    /\ seq \in 0 .. MaxId
    /\ now \in 0 .. MaxClock
    /\ Len(item_versions) <= MaxSnapshots

(* ---- settings ---- *)

\* the keys and values written while the settings are looked at on their own
MapKeys == {"api_key", "model"}
MapValues == {"k1", "k2"}

\* the settings store and a few items on the same connection
NextSettingsMap ==
    \/ \E p \in Payloads : Insert(CallerItem(None, p, 1))
    \/ \E id \in CallIds : Delete(id)
    \/ \E k \in MapKeys, v \in MapValues : SettingsSet(k, v)
    \/ \E k \in MapKeys : SettingsDelete(k)

SpecSettingsMap == Init /\ [][NextSettingsMap]_vars

(* ---- opening an existing store ---- *)

\* a migration that sets the version of every row
add_version_reset(row) ==
    [f \in DOMAIN row \ {"version"} |-> row[f]] @@ [version |-> 1]

\* ALTER TABLE items ADD COLUMN version INTEGER DEFAULT 1, run when the
\* table has no version column: the rows read 1 in the new column; a table
\* that has the column is left alone
add_version_column(row) ==
    IF "version" \in DOMAIN row THEN row ELSE row @@ [version |-> 1]

\* Database::init_schema on a store that exists: every CREATE ... IF NOT
\* EXISTS finds its table, index or trigger and does nothing; then
\* run_migrations
InitSchema ==
    /\ items' = [id \in DOMAIN items |-> add_version_column(items[id])]
    /\ Return("init_schema", None, None, "Ok")
    /\ UNCHANGED <<item_versions, items_fts, settings, seq, now, foreign_keys, search_state, pending, app, llm>>

\* the items table has the version column (told by its rows)
Migrated == \A id \in DOMAIN items : "version" \in DOMAIN items[id]

\* a row written by a release whose items table had no version column
LegacyRow(payload) ==
    RowFields(payload) @@ [created_at |-> now, updated_at |-> now]

\* the store file found by Database::new: none (the tables are created
\* empty), or one written by a release without versions
InitStores ==
    /\ now = 0
    /\ \E n \in 0 .. MaxId : \E ps \in [1 .. n -> Payloads] :
          /\ \A i, j \in 1 .. n : ps[i].name = ps[j].name => i = j
          /\ items = [id \in 1 .. n |-> LegacyRow(ps[id])]
          /\ seq = n
    /\ items_fts = SetToBag({FtsEntry(id, items[id]) : id \in DOMAIN items})
    /\ item_versions = <<>>
    /\ settings \in {{}, {[key |-> "api_key", value |-> "k1"]}}
    /\ foreign_keys \in BOOLEAN
    /\ last = [op |-> "none", id |-> None, version |-> None, result |-> "Ok"]
    /\ search_state = SearchStateDefault
    /\ pending = [w \in Writers |-> None]
    /\ app = AppNew
    /\ llm = <<>>

\* Database::new runs init_schema before the store is used; the program may
\* be started again at any time
NextSchema ==
    \/ InitSchema
    \/ Migrated /\ last.op # "none" /\ NextSettings

SpecSchema == InitStores /\ [][NextSchema]_vars

(* ---- strings ---- *)

\* the characters of the strings whose text the code inspects; a Rust String
\* is the sequence of its characters
Chars ==
    ("" :> <<>>) @@
    (" " :> <<" ">>) @@
    ("x" :> <<"x">>) @@
    ("y" :> <<"y">>) @@
    ("d" :> <<"d">>) @@
    ("hello" :> <<"h", "e", "l", "l", "o">>) @@
    ("world" :> <<"w", "o", "r", "l", "d">>) @@
    ("go" :> <<"g", "o">>) @@
    ("g_" :> <<"g", "_">>) @@
    ("rust" :> <<"r", "u", "s", "t">>) @@
    ("golang" :> <<"g", "o", "l", "a", "n", "g">>) @@
    ("Go, rust" :> <<"G", "o", ",", " ", "r", "u", "s", "t">>) @@
    ("RUST, go" :> <<"R", "U", "S", "T", ",", " ", "g", "o">>) @@
    ("rust,go,go" :> <<"r", "u", "s", "t", ",", "g", "o", ",", "g", "o">>) @@
    (" ,Rust ," :> <<" ", ",", "R", "u", "s", "t", " ", ",">>) @@
    ("go rust" :> <<"g", "o", " ", "r", "u", "s", "t">>) @@
    ("É" :> <<"É">>) @@
    ("é" :> <<"é">>) @@
    ("z" :> <<"z">>) @@
    ("1" :> <<"1">>) @@
    ("2" :> <<"2">>) @@
    ("3" :> <<"3">>) @@
    ("prompt" :> <<"p", "r", "o", "m", "p", "t">>) @@
    ("agent" :> <<"a", "g", "e", "n", "t">>) @@
    ("skill" :> <<"s", "k", "i", "l", "l">>) @@
    ("command" :> <<"c", "o", "m", "m", "a", "n", "d">>)

\* char::is_whitespace on the characters above
IsWhitespace(c) == c = " "

\* char::to_lowercase on the characters above
LowerChar(c) ==
    CASE c = "G" -> "g"
      [] c = "R" -> "r"
      [] c = "S" -> "s"
      [] c = "T" -> "t"
      [] c = "U" -> "u"
      [] c = "É" -> "é"
      [] OTHER -> c

\* the case folding of SQLite's built-in LIKE: the 26 letters of ASCII only
AsciiLower(c) ==
    CASE c = "G" -> "g"
      [] c = "R" -> "r"
      [] c = "S" -> "s"
      [] c = "T" -> "t"
      [] c = "U" -> "u"
      [] OTHER -> c

\* the byte a character is encoded as; for a character beyond ASCII its code
\* point, which orders strings as the bytes of UTF-8 do
Byte ==
    (" " :> 32) @@ ("," :> 44) @@ ("G" :> 71) @@ ("R" :> 82) @@
    ("S" :> 83) @@ ("T" :> 84) @@ ("U" :> 85) @@ ("d" :> 100) @@
    ("e" :> 101) @@ ("g" :> 103) @@ ("h" :> 104) @@ ("l" :> 108) @@
    ("o" :> 111) @@ ("r" :> 114) @@ ("s" :> 115) @@ ("t" :> 116) @@
    ("u" :> 117) @@ ("w" :> 119) @@ ("x" :> 120) @@ ("y" :> 121) @@
    ("É" :> 201) @@ ("é" :> 233)

\* str::split(sep): the pieces between the separators, empty pieces included
RECURSIVE split(_, _)
split(s, sep) ==
    IF \A k \in 1 .. Len(s) : s[k] # sep THEN <<s>>
    ELSE LET k == CHOOSE k \in 1 .. Len(s) :
                     s[k] = sep /\ \A j \in 1 .. k - 1 : s[j] # sep
         IN  <<SubSeq(s, 1, k - 1)>> \o split(SubSeq(s, k + 1, Len(s)), sep)

\* str::trim_start
RECURSIVE trim_start(_)
trim_start(s) ==
    IF s # <<>> /\ IsWhitespace(Head(s)) THEN trim_start(Tail(s)) ELSE s

\* str::trim_end
RECURSIVE trim_end(_)
trim_end(s) ==
    IF s # <<>> /\ IsWhitespace(s[Len(s)])
    THEN trim_end(SubSeq(s, 1, Len(s) - 1))
    ELSE s

\* str::trim
trim(s) == trim_end(trim_start(s))

\* str::to_lowercase
to_lowercase(s) == [k \in 1 .. Len(s) |-> LowerChar(s[k])]

\* Ord::cmp on integers
cmp(a, b) == IF a < b THEN "Less" ELSE IF a > b THEN "Greater" ELSE "Equal"

\* Ordering::then_with
then_with(first, second) == IF first = "Equal" THEN second ELSE first

\* Ord::cmp on strings: byte by byte, a proper prefix is smaller
RECURSIVE cmp_str(_, _)
cmp_str(s, t) ==
    IF s = <<>> /\ t = <<>> THEN "Equal"
    ELSE IF s = <<>> THEN "Less"
    ELSE IF t = <<>> THEN "Greater"
    ELSE then_with(cmp(Byte[Head(s)], Byte[Head(t)]),
                   cmp_str(Tail(s), Tail(t)))

(* ---- tags ---- *)

\* largest number of items in the store when the sidebar lists are read
MaxSidebarItems == 3

\* the tags columns the items carry when the tags are read
TagInputs ==
    {NULL, "", "go", "Go, rust", "RUST, go", "rust,go,go", " ,Rust ,",
     "go rust", "É"}

\* the non-empty trimmed lower-case pieces of one tags column, in order
TagsOfColumn(tags) ==
    LET pieces == split(Chars[tags], ",")
        cleaned == [k \in 1 .. Len(pieces) |-> to_lowercase(trim(pieces[k]))]
    IN  SelectSeq(cleaned, LAMBDA tag : tag # <<>>)

\* the tags columns SELECT tags FROM items WHERE tags IS NOT NULL returns,
\* as a sequence in rowid order
RECURSIVE TagRows(_)
TagRows(ids) ==
    IF ids = {} THEN <<>>
    ELSE LET id == CHOOSE id \in ids : \A j \in ids : id <= j
         IN  (IF items[id].tags # NULL THEN <<items[id].tags>> ELSE <<>>)
             \o TagRows(ids \ {id})

\* *tag_counts.entry(tag).or_insert(0) += 1 for every tag of the sequence
RECURSIVE CountInto(_, _)
CountInto(tag_counts, tags) ==
    IF tags = <<>> THEN tag_counts
    ELSE LET tag == Head(tags)
             count == IF tag \in DOMAIN tag_counts THEN tag_counts[tag] ELSE 0
         IN  CountInto((tag :> count + 1) @@ tag_counts, Tail(tags))

\* the HashMap after the loop over the rows
RECURSIVE CountRows(_, _)
CountRows(tag_counts, rows) ==
    IF rows = <<>> THEN tag_counts
    ELSE CountRows(CountInto(tag_counts, TagsOfColumn(Head(rows))), Tail(rows))

\* HashMap::into_iter().collect(): the entries in some order
IterationOrders(map) ==
    {order \in [1 .. Cardinality(DOMAIN map) -> {<<k, map[k]>> : k \in DOMAIN map}] :
        \A i, j \in DOMAIN order : order[i] = order[j] => i = j}

\* a comparison by count alone
TagOrderByCount(a, b) == cmp(b[2], a[2])

\* the closure of sort_by: count descending, then name ascending
TagOrder(a, b) == then_with(cmp(b[2], a[2]), cmp_str(a[1], b[1]))

\* slice::sort_by is stable: an element goes behind the elements that do
\* not compare greater than it
RECURSIVE sort_by(_)
sort_by(s) ==
    IF s = <<>> THEN <<>>
    ELSE LET sorted == sort_by(SubSeq(s, 1, Len(s) - 1))
             x == s[Len(s)]
             before == {k \in 0 .. Len(sorted) :
                           \A j \in 1 .. k : TagOrder(sorted[j], x) # "Greater"}
             k == CHOOSE k \in before : \A j \in before : j <= k
         IN  SubSeq(sorted, 1, k) \o <<x>> \o SubSeq(sorted, k + 1, Len(sorted))

\* ItemStore::get_tags_with_counts
GetTagsWithCounts ==
    /\ \E order \in IterationOrders(CountRows(<<>>, TagRows(DOMAIN items))) :
          Return("get_tags_with_counts", None, None, sort_by(order))
    /\ UNCHANGED <<store, now, foreign_keys, search_state, pending, app, llm>>

\* a payload with the given name and tags
TagPayload(name, tags) ==
    [name |-> name, category |-> "Prompt", description |-> NULL,
     content |-> "hello", model |-> NULL, tools |-> NULL,
     allowed_tools |-> NULL, argument_hint |-> NULL,
     permission_mode |-> NULL, skills |-> NULL, tags |-> tags]

\* a store into which up to MaxSidebarItems items with tags were inserted
InitTags ==
    /\ now = 0
    /\ \E n \in 0 .. MaxSidebarItems : \E tags \in [1 .. n -> TagInputs] :
          /\ items = [id \in 1 .. n |->
                        InsertedRow(CallerItem(None,
                            TagPayload(ToString(id), tags[id]), 1))]
          /\ seq = n
    /\ items_fts = SetToBag({FtsEntry(id, items[id]) : id \in DOMAIN items})
    /\ item_versions = <<>>
    /\ settings = {}
    /\ foreign_keys \in BOOLEAN
    /\ last = [op |-> "none", id |-> None, version |-> None, result |-> "Ok"]
    /\ search_state = SearchStateDefault
    /\ pending = [w \in Writers |-> None]
    /\ app = AppNew
    /\ llm = <<>>

NextTags == GetTagsWithCounts

\* the tag list of the sidebar, read from stores with tagged items
SpecTags == InitTags /\ [][NextTags]_vars

(* ---- category counts ---- *)

\* a result row for each of the four category tokens
AllCategoryTokens == {as_str(c) : c \in Categories}

\* GROUP BY category: one group per value of the column that occurs in items
GroupTokens == {items[id].category : id \in DOMAIN items}

\* the rows of SELECT category, COUNT(*) FROM items GROUP BY category, in
\* some order
GroupRows ==
    {rows \in [1 .. Cardinality(GroupTokens) ->
                 {<<t, Cardinality({id \in DOMAIN items : items[id].category = t})>> :
                     t \in GroupTokens}] :
        \A i, j \in DOMAIN rows : rows[i] = rows[j] => i = j}

\* ItemStore::count_by_category: every row becomes (Category, count)
CountByCategory ==
    /\ \E rows \in GroupRows :
          Return("count_by_category", None, None,
                 [k \in DOMAIN rows |-> <<from_str(rows[k][1]), rows[k][2]>>])
    /\ UNCHANGED <<store, now, foreign_keys, search_state, pending, app, llm>>

\* a payload with the given name and category
CategoryPayload(name, category) ==
    [name |-> name, category |-> category, description |-> "d",
     content |-> "hello", model |-> NULL, tools |-> NULL,
     allowed_tools |-> NULL, argument_hint |-> NULL,
     permission_mode |-> NULL, skills |-> NULL, tags |-> NULL]

\* a store into which up to MaxSidebarItems items of any category were
\* inserted
InitCategories ==
    /\ now = 0
    /\ \E n \in 0 .. MaxSidebarItems : \E cats \in [1 .. n -> Categories] :
          /\ items = [id \in 1 .. n |->
                        InsertedRow(CallerItem(None,
                            CategoryPayload(ToString(id), cats[id]), 1))]
          /\ seq = n
    /\ items_fts = SetToBag({FtsEntry(id, items[id]) : id \in DOMAIN items})
    /\ item_versions = <<>>
    /\ settings = {}
    /\ foreign_keys \in BOOLEAN
    /\ last = [op |-> "none", id |-> None, version |-> None, result |-> "Ok"]
    /\ search_state = SearchStateDefault
    /\ pending = [w \in Writers |-> None]
    /\ app = AppNew
    /\ llm = <<>>

NextCategories == CountByCategory

\* the category counts of the sidebar, read from stores with items of
\* several categories
SpecCategories == InitCategories /\ [][NextCategories]_vars

(* ---- recent items ---- *)

\* the limits the callers pass to list_recent
Limits == 0 .. MaxId + 1

\* ORDER BY updated_at: a comes before b when it is not later
OldestFirst(a, b) == a <= b

\* ORDER BY updated_at DESC: a comes before b when it is not earlier
RecentFirst(a, b) == a >= b

\* the orders in which ORDER BY updated_at DESC may return the rows of items:
\* rows with equal updated_at come in any order
RowsByUpdatedDesc ==
    {order \in [1 .. Cardinality(DOMAIN items) -> DOMAIN items] :
        /\ \A i, j \in DOMAIN order : order[i] = order[j] => i = j
        /\ \A i, j \in DOMAIN order :
              i < j => RecentFirst(items[order[i]].updated_at,
                                   items[order[j]].updated_at)}

\* LIMIT ?: the first limit rows
Limit(rows, limit) ==
    SubSeq(rows, 1, IF limit < Len(rows) THEN limit ELSE Len(rows))

\* ItemStore::list_recent
ListRecent(limit) ==
    /\ \E order \in RowsByUpdatedDesc :
          Return("list_recent", None, None,
                 [k \in DOMAIN Limit(order, limit) |->
                     ItemOfRow(order[k], items[order[k]])])
    /\ UNCHANGED <<store, now, foreign_keys, search_state, pending, app, llm>>

\* the item store read by list_recent while time passes between the calls
NextRecent ==
    \/ NextClock
    \/ \E limit \in Limits : ListRecent(limit)

SpecRecent == Init /\ [][NextRecent]_vars

(* ---- tag filter ---- *)

\* a comparison of characters that tells the letter cases apart
LikeCharExact(p, c) == p = "_" \/ p = c

\* one character of a LIKE pattern against one character of the text: LIKE
\* ignores the case of ASCII letters (no PRAGMA case_sensitive_like is set)
\* and of no other letter, and _ stands for any character
LikeChar(p, c) == p = "_" \/ AsciiLower(p) = AsciiLower(c)

\* text LIKE '%' || tag || '%', for a tag without % in it
Like(text, tag) ==
    \E offset \in 0 .. Len(text) - Len(tag) :
        \A k \in 1 .. Len(tag) : LikeChar(tag[k], text[offset + k])

\* the tags columns of the items list_by_tag is run on, and the tags asked for
ByTagInputs == {NULL, "golang", "Go, rust", "rust"}
TagQueries == {"go", "rust", "g_"}

\* ItemStore::list_by_tag: WHERE tags LIKE ? ORDER BY updated_at DESC; a NULL
\* tags column matches no pattern
ListByTag(tag) ==
    /\ \E order \in RowsByUpdatedDesc :
          LET rows == SelectSeq(order,
                          LAMBDA id : /\ items[id].tags # NULL
                                      /\ Like(Chars[items[id].tags], Chars[tag]))
          IN  Return("list_by_tag", None, None,
                     [k \in DOMAIN rows |-> ItemOfRow(rows[k], items[rows[k]])])
    /\ UNCHANGED <<store, now, foreign_keys, search_state, pending, app, llm>>

\* items with tags are inserted and deleted while time passes, and listed
\* by tag
NextByTag ==
    \/ \E name \in Names, tags \in ByTagInputs :
          Insert(CallerItem(None, TagPayload(name, tags), 1))
    \/ \E id \in CallIds : Delete(id)
    \/ Tick
    \/ \E tag \in TagQueries : ListByTag(tag)

SpecByTag == Init /\ [][NextByTag]_vars

\* the String of a sequence of characters
Text(s) == CHOOSE t \in DOMAIN Chars : Chars[t] = s

\* App::handle_sidebar_selection on the k-th tag of the sidebar, which holds
\* the pairs get_tags_with_counts returned: refresh_data lists the items by
\* that tag
SelectTag(k) ==
    /\ last.op = "get_tags_with_counts"
    /\ k \in DOMAIN last.result
    /\ ListByTag(Text(last.result[k][1]))

\* the sidebar: the tags are read, then one of them is selected
NextSidebar ==
    \/ GetTagsWithCounts
    \/ \E k \in 1 .. MaxSidebarItems + 1 : SelectTag(k)

SpecSidebar == InitTags /\ [][NextSidebar]_vars

(* ---- reads as calls ---- *)

\* ItemStore::get
Get(id) ==
    /\ Return("get", Some(id), None, get(id))
    /\ UNCHANGED <<store, now, foreign_keys, search_state, pending, app, llm>>

\* a list_by_category without its WHERE clause
ListOfAnyCategory(category) ==
    /\ \E order \in RowsByUpdatedDesc :
          Return("list_by_category", None, None,
                 [k \in DOMAIN order |-> ItemOfRow(order[k], items[order[k]])])
    /\ UNCHANGED <<store, now, foreign_keys, search_state, pending, app, llm>>

\* ItemStore::list_by_category: WHERE category = ? ORDER BY updated_at DESC
ListByCategory(category) ==
    /\ \E order \in RowsByUpdatedDesc :
          LET rows == SelectSeq(order,
                          LAMBDA id : items[id].category = as_str(category))
          IN  Return("list_by_category", None, None,
                     [k \in DOMAIN rows |-> ItemOfRow(rows[k], items[rows[k]])])
    /\ UNCHANGED <<store, now, foreign_keys, search_state, pending, app, llm>>

\* ItemStore::search as a call: the matching items in the order of their rank,
\* which the model leaves open
Search(query) ==
    /\ \E order \in [1 .. Cardinality(search(query)) -> search(query)] :
          /\ \A i, j \in DOMAIN order : order[i] = order[j] => i = j
          /\ Return("search", None, None,
                    [k \in DOMAIN order |-> ItemOfRow(order[k], items[order[k]])])
    /\ UNCHANGED <<store, now, foreign_keys, search_state, pending, app, llm>>

\* ItemStore::list_versions as a call
ListVersions(item_id) ==
    /\ Return("list_versions", Some(item_id), None, list_versions(item_id))
    /\ UNCHANGED <<store, now, foreign_keys, search_state, pending, app, llm>>

\* ItemStore::get_version as a call
GetVersion(item_id, version) ==
    /\ Return("get_version", Some(item_id), Some(version),
              get_version(item_id, version))
    /\ UNCHANGED <<store, now, foreign_keys, search_state, pending, app, llm>>

\* the operations of ItemStore that only read
ReadOps ==
    {"get", "list_recent", "list_by_category", "list_by_tag", "search",
     "count_by_category", "get_tags_with_counts", "list_versions",
     "get_version"}

\* the reads of ItemStore, each on any of its arguments
Reads ==
    \/ \E id \in CallIds : Get(id)
    \/ \E limit \in Limits : ListRecent(limit)
    \/ \E c \in Categories : ListByCategory(c)
    \/ \E tag \in TagQueries : ListByTag(tag)
    \/ \E q \in Names \cup Contents : Search(q)
    \/ CountByCategory
    \/ GetTagsWithCounts
    \/ \E id \in CallIds : ListVersions(id)
    \/ \E id \in CallIds, v \in CallVersions : GetVersion(id, v)

\* the writes and the reads of ItemStore, one call at a time
NextReads ==
    \/ Next
    \/ Reads

SpecReads == Init /\ [][NextReads]_vars

\* items of several categories are inserted and deleted while time passes,
\* and the item list is read for one category
NextByCategory ==
    \/ \E name \in Names, c \in UsedCategories \cup {"Agent"} :
          Insert(CallerItem(None, CategoryPayload(name, c), 1))
    \/ \E id \in CallIds, c \in UsedCategories \cup {"Agent"} :
          Update(CallerItem(Some(id), CategoryPayload("x", c), 1))
    \/ \E id \in CallIds : Delete(id)
    \/ Tick
    \/ \E c \in Categories : ListByCategory(c)

SpecByCategory == Init /\ [][NextByCategory]_vars

(* ---- validation and the save path ---- *)

\* str::is_empty() without the trim
IsEmptyText(text) == Chars[text] = <<>>

\* str::trim().is_empty()
IsBlank(text) == trim(Chars[text]) = <<>>

\* a description is required for no category
NeedsDescriptionNever(category) == FALSE

\* match self.category { Category::Agent | Category::Skill => ... }
NeedsDescription(category) == category \in {"Agent", "Skill"}

\* Item::validate: the list of error messages, empty when the item is valid
validate(item) ==
    (IF IsBlank(item.name) THEN <<"Name is required">> ELSE <<>>) \o
    (IF IsBlank(item.content) THEN <<"Content is required">> ELSE <<>>) \o
    (IF /\ NeedsDescription(item.category)
        /\ (item.description = NULL \/ IsBlank(item.description))
     THEN <<"Description is required for this category">>
     ELSE <<>>)

\* App::save_item on the item of the edit screen: a validation error is
\* shown in the status line and the store is not called
SaveItem(item, is_new) ==
    IF validate(item) # <<>>
    THEN /\ Return("save_item", item.id, None, "Validation")
         /\ UNCHANGED <<store, now, foreign_keys, search_state, pending, app, llm>>
    ELSE IF is_new THEN Insert(item) ELSE Update(item)

\* the values the edit screen and other callers put into an Item
FormNames == {"x", ""}
FormContents == {"hello", ""}
FormCategories == {"Prompt", "Agent", "Skill"}
FormDescriptions == {NULL, "d"}

FormPayloads ==
    [name : FormNames, category : FormCategories,
     description : FormDescriptions, content : FormContents,
     model : {NULL}, tools : {NULL}, allowed_tools : {NULL},
     argument_hint : {NULL}, permission_mode : {NULL}, skills : {NULL},
     tags : {NULL}]

\* the Items of the edit screen: a new one has no id, an edited one has the
\* id of the row it was loaded from
FormItems ==
    {CallerItem(None, p, 1) : p \in FormPayloads} \cup
    {CallerItem(Some(i), p, 1) :
        i \in CallIds,
        p \in {q \in FormPayloads : q.name = "x" /\ q.description = NULL}}

\* items saved from the edit screen, and ItemStore::insert called directly
NextValidate ==
    \/ \E item \in FormItems : SaveItem(item, item.id = None)
    \/ \E item \in FormItems : item.id = None /\ Insert(item)

SpecValidate == Init /\ [][NextValidate]_vars

(* ---- the search screen ---- *)

\* longest query typed into the search screen
MaxQueryLen == 2
\* the characters typed into the query; j, k and c are commands of the
\* screen and never reach the query
SearchKeys == {"x", "y"}

\* a payload whose name and content are words a query can spell
SearchPayload(name, content) ==
    [name |-> name, category |-> "Prompt", description |-> NULL,
     content |-> content, model |-> NULL, tools |-> NULL,
     allowed_tools |-> NULL, argument_hint |-> NULL,
     permission_mode |-> NULL, skills |-> NULL, tags |-> NULL]

\* SearchState::insert_char: String::insert at the cursor
insert_char(s, c) ==
    [s EXCEPT !.query = SubSeq(@, 1, s.cursor_pos) \o <<c>>
                          \o SubSeq(@, s.cursor_pos + 1, Len(@)),
              !.cursor_pos = @ + 1]

\* SearchState::delete_char: String::remove of the character before the cursor
delete_char(s) ==
    IF s.cursor_pos > 0
    THEN [s EXCEPT !.query = SubSeq(@, 1, s.cursor_pos - 1)
                               \o SubSeq(@, s.cursor_pos + 1, Len(@)),
                   !.cursor_pos = @ - 1]
    ELSE s

\* SearchState::move_cursor_left: saturating_sub(1)
move_cursor_left(s) ==
    [s EXCEPT !.cursor_pos = IF @ = 0 THEN 0 ELSE @ - 1]

\* SearchState::move_cursor_right
move_cursor_right(s) ==
    [s EXCEPT !.cursor_pos = IF @ + 1 < Len(s.query) THEN @ + 1 ELSE Len(s.query)]

\* SearchState::select_next
select_next(s) ==
    IF s.results # <<>>
    THEN [s EXCEPT !.selected_index = (@ + 1) % Len(s.results)]
    ELSE s

\* SearchState::select_prev: checked_sub(1).unwrap_or(len - 1)
select_prev(s) ==
    IF s.results # <<>>
    THEN [s EXCEPT !.selected_index = IF @ = 0 THEN Len(s.results) - 1 ELSE @ - 1]
    ELSE s

\* ItemStore::search on the typed text: the query spells one token
SearchTyped(query) ==
    {id \in DOMAIN items :
        \E e \in BagToSet(items_fts) :
            /\ e.rowid = id
            /\ \E col \in {e.name, e.description, e.content, e.tags} \ {NULL} :
                  Chars[col] = query}

\* the rows of SearchTyped in some rank order, as Items
SearchAnswers(query) ==
    {[k \in DOMAIN order |-> ItemOfRow(order[k], items[order[k]])] :
        order \in {o \in [1 .. Cardinality(SearchTyped(query)) -> SearchTyped(query)] :
                      \A i, j \in DOMAIN o : o[i] = o[j] => i = j}}

\* a perform_search without the is_empty test
PerformSearchAlways(s) ==
    \E found \in SearchAnswers(s.query) :
        /\ search_state' = [s EXCEPT !.results = found, !.selected_index = 0]
        /\ Return("search", None, None, found)

\* App::perform_search, entered with the search state s
PerformSearch(s) ==
    IF s.query = <<>>
    THEN /\ search_state' = [s EXCEPT !.results = <<>>]
         /\ UNCHANGED last
    ELSE \E found \in SearchAnswers(s.query) :
            /\ search_state' = [s EXCEPT !.results = found, !.selected_index = 0]
            /\ Return("search", None, None, found)

\* handle_search_key, KeyCode::Char(c)
KeyChar(c) ==
    /\ Len(search_state.query) < MaxQueryLen
    /\ PerformSearch(insert_char(search_state, c))
    /\ UNCHANGED <<store, now, foreign_keys, pending, app, llm>>

\* handle_search_key, KeyCode::Backspace
KeyBackspace ==
    /\ PerformSearch(delete_char(search_state))
    /\ UNCHANGED <<store, now, foreign_keys, pending, app, llm>>

\* handle_search_key, the keys that move the cursor or the selection
KeyMove ==
    /\ \E moved \in {move_cursor_left(search_state),
                     move_cursor_right(search_state),
                     select_next(search_state), select_prev(search_state)} :
          search_state' = moved
    /\ UNCHANGED <<store, now, foreign_keys, pending, app, llm, last>>

\* handle_search_key, KeyCode::Esc, and App::open_search: a fresh search state
KeyEsc ==
    /\ search_state' = SearchStateDefault
    /\ UNCHANGED <<store, now, foreign_keys, pending, app, llm, last>>

\* the search screen over a store that gains and loses items
NextSearch ==
    \/ \E name \in SearchKeys, content \in SearchKeys :
          Insert(CallerItem(None, SearchPayload(name, content), 1))
    \/ \E id \in CallIds : Delete(id)
    \/ \E c \in SearchKeys : KeyChar(c)
    \/ KeyBackspace
    \/ KeyMove
    \/ KeyEsc

SpecSearch == Init /\ [][NextSearch]_vars

(* ---- two processes on one database file ---- *)

\* the Items the processes pass to update: an existing id, a name and the
\* new content
WriterItems ==
    {CallerItem(Some(id), TagPayload(name, NULL), 1) :
        id \in CallIds, name \in Names}

\* ItemStore::update up to the read of the current row: the id is taken from
\* the caller's item and get runs its SELECT
UpdateBegin(w, item) ==
    /\ pending[w] = None
    /\ pending' = [pending EXCEPT ![w] =
                      Some([item |-> item, current |-> get(item.id[1]),
                            pc |-> IF get(item.id[1]) # None
                                   THEN "snapshot" ELSE "write"])]
    /\ UNCHANGED <<store, now, foreign_keys, search_state, app, llm, last>>

\* ItemStore::update, the INSERT INTO item_versions of the row read before
UpdateSnapshot(w) ==
    /\ pending[w] # None
    /\ pending[w][1].pc = "snapshot"
    /\ LET call == pending[w][1]
           item_id == call.item.id[1]
       IN  IF foreign_keys /\ item_id \notin DOMAIN items
           THEN /\ Return("update", call.item.id, None, "ForeignKey")
                /\ pending' = [pending EXCEPT ![w] = None]
                /\ UNCHANGED store
           ELSE /\ Len(item_versions) < MaxSnapshots
                /\ item_versions' =
                      Append(item_versions,
                             SnapshotRow(item_id,
                                         SnapshotSource(call.current[1], call.item)))
                /\ pending' = [pending EXCEPT ![w] = Some([call EXCEPT !.pc = "write"])]
                /\ UNCHANGED <<items, items_fts, settings, seq, last>>
    /\ UNCHANGED <<now, foreign_keys, search_state, app, llm>>

\* ItemStore::update, the UPDATE items statement and the return
UpdateWrite(w) ==
    /\ pending[w] # None
    /\ pending[w][1].pc = "write"
    /\ LET item == pending[w][1].item
           item_id == item.id[1]
       IN  IF item_id \notin DOMAIN items
           THEN /\ Return("update", item.id, None, "Ok")
                /\ UNCHANGED <<items, items_fts>>
           ELSE IF UniqueViolation(item.name, item_id)
           THEN /\ Return("update", item.id, None, "Conflict")
                /\ UNCHANGED <<items, items_fts>>
           ELSE LET row == UpdatedRow(items[item_id], item)
                IN  /\ items' = [items EXCEPT ![item_id] = row]
                    /\ items_fts' = items_au(items_fts, item_id, items[item_id], row)
                    /\ Return("update", item.id, None, "Ok")
    /\ pending' = [pending EXCEPT ![w] = None]
    /\ UNCHANGED <<item_versions, settings, seq, now, foreign_keys, search_state, app, llm>>

\* an empty store that one process or two have open
InitWriters ==
    /\ items = <<>>
    /\ item_versions = <<>>
    /\ items_fts = EmptyBag
    /\ settings = {}
    /\ seq = 0
    /\ now = 0
    /\ foreign_keys \in BOOLEAN
    /\ last = [op |-> "none", id |-> None, version |-> None, result |-> "Ok"]
    /\ search_state = SearchStateDefault
    /\ \E open \in {{"w1"}, Writers} : pending = [w \in open |-> None]
    /\ app = AppNew
    /\ llm = <<>>

\* a process that is not inside update inserts or deletes with one
\* statement; update is three statements, and the file lock orders the
\* statements of the processes one after another
NextWriters ==
    \/ \E w \in DOMAIN pending, name \in Names :
          pending[w] = None /\ Insert(CallerItem(None, TagPayload(name, NULL), 1))
    \/ \E w \in DOMAIN pending, id \in CallIds :
          pending[w] = None /\ Delete(id)
    \/ \E w \in DOMAIN pending, item \in WriterItems : UpdateBegin(w, item)
    \/ \E w \in DOMAIN pending : UpdateSnapshot(w)
    \/ \E w \in DOMAIN pending : UpdateWrite(w)

SpecWriters == InitWriters /\ [][NextWriters]_vars

(* ---- the application: key handlers and the LLM thread ---- *)

\* the completions requested in one run
MaxRequests == 2

\* the keys pressed while items are browsed and deleted
DialogKeys == {"q", "j", "k", "d", "e", "Enter", "Esc", "Tab", "Backspace"}
\* the keys pressed while items are written and saved
SaveKeys == {"n", "e", "j", "Enter", "Tab", "Backspace", "Ctrl+S", " ", "z"}
\* the keys pressed while completions are requested and applied
LlmKeys == {"j", "Enter", "Esc", "Ctrl+A", "Ctrl+S"}
\* KeyCode::Char(c) without a modifier
CharKeys == {"q", "j", "k", "d", "e", "n", " ", "z"}

\* the content of the response to request c
Response(c) == ToString(c)

\* a delete dialog that opens with the confirm option selected
ConfirmDialogPreselected(item_name) ==
    [title |-> " Confirm Delete ",
     message |-> <<"Are you sure you want to delete '", item_name, "'?">>,
     selected |-> TRUE]

\* ConfirmDialog::delete(item_name)
ConfirmDialogDelete(item_name) ==
    [title |-> " Confirm Delete ",
     message |-> <<"Are you sure you want to delete '", item_name, "'?">>,
     selected |-> FALSE]

\* ConfirmDialog::discard_changes()
discard_changes ==
    [title |-> " Unsaved Changes ",
     message |-> <<"You have unsaved changes. Discard them?">>,
     selected |-> FALSE]

\* Category::all()
CategoryAll == <<"Prompt", "Agent", "Skill", "Command">>

\* Category::all().iter().position(|c| *c == category).unwrap_or(0)
CategoryPosition(category) ==
    (CHOOSE k \in DOMAIN CategoryAll : CategoryAll[k] = category) - 1

\* EditState::edit_item
edit_item(item) ==
    [item |-> item, is_new |-> FALSE, focused_field |-> "Name",
     cursor_pos |-> Len(Chars[item.name]), has_changes |-> FALSE,
     show_category_dropdown |-> FALSE,
     category_dropdown_index |-> CategoryPosition(item.category)]

\* EditField::next
EditFieldNext(field, category) ==
    CASE field = "Name" -> "Category"
      [] field = "Category" -> "Tags"
      [] field = "Tags" ->
             IF category \in {"Agent", "Command"} THEN "Model"
             ELSE IF category = "Skill" THEN "Tools" ELSE "Description"
      [] field = "Model" -> "Tools"
      [] field = "Tools" -> "Description"
      [] field = "Description" -> "Content"
      [] field = "Content" -> "Name"

\* EditField::prev
EditFieldPrev(field, category) ==
    CASE field = "Name" -> "Content"
      [] field = "Category" -> "Name"
      [] field = "Tags" -> "Category"
      [] field = "Model" -> "Tags"
      [] field = "Tools" ->
             IF category \in {"Agent", "Command"} THEN "Model" ELSE "Tags"
      [] field = "Description" ->
             IF category = "Prompt" THEN "Tags" ELSE "Tools"
      [] field = "Content" -> "Description"

\* Option<String>::as_deref().unwrap_or("")
OrEmpty(text) == IF text = NULL THEN "" ELSE text

\* EditState::current_field_value
current_field_value(es) ==
    CASE es.focused_field = "Name" -> es.item.name
      [] es.focused_field = "Category" -> as_str(es.item.category)
      [] es.focused_field = "Tags" -> OrEmpty(es.item.tags)
      [] es.focused_field = "Model" -> OrEmpty(es.item.model)
      [] es.focused_field = "Tools" ->
             IF es.item.tools # NULL THEN es.item.tools
             ELSE OrEmpty(es.item.allowed_tools)
      [] es.focused_field = "Description" -> OrEmpty(es.item.description)
      [] es.focused_field = "Content" -> es.item.content

\* if value.is_empty() { None } else { Some(value) }
NoneIfEmpty(value) == IF value = "" THEN NULL ELSE value

\* EditState::set_current_field
set_current_field(es, value) ==
    LET changed == [es EXCEPT !.has_changes = TRUE]
        field == es.focused_field
    IN  CASE field = "Name" -> [changed EXCEPT !.item.name = value]
          [] field = "Category" ->
                 [changed EXCEPT !.item.category = from_str(value)]
          [] field = "Tags" ->
                 [changed EXCEPT !.item.tags = NoneIfEmpty(value)]
          [] field = "Model" ->
                 [changed EXCEPT !.item.model = NoneIfEmpty(value)]
          [] field = "Tools" ->
                 IF es.item.category = "Agent"
                 THEN [changed EXCEPT !.item.tools = NoneIfEmpty(value)]
                 ELSE IF es.item.category \in {"Skill", "Command"}
                 THEN [changed EXCEPT
                          !.item.allowed_tools = NoneIfEmpty(value)]
                 ELSE changed
          [] field = "Description" ->
                 [changed EXCEPT !.item.description = NoneIfEmpty(value)]
          [] field = "Content" -> [changed EXCEPT !.item.content = value]

\* EditState::insert_char
insert_char_at_cursor(es, c) ==
    LET chars == Chars[current_field_value(es)]
        pos == IF es.cursor_pos > Len(chars) THEN Len(chars)
               ELSE es.cursor_pos
        typed == SubSeq(chars, 1, pos) \o <<c>> \o
                 SubSeq(chars, pos + 1, Len(chars))
    IN  set_current_field([es EXCEPT !.cursor_pos = pos + 1], Text(typed))

\* EditState::delete_char, for a cursor inside the text
delete_char_before_cursor(es) ==
    LET chars == Chars[current_field_value(es)]
    IN  IF es.cursor_pos > 0 /\ chars # <<>>
        THEN set_current_field(
                 [es EXCEPT !.cursor_pos = @ - 1],
                 Text(SubSeq(chars, 1, es.cursor_pos - 1) \o
                      SubSeq(chars, es.cursor_pos + 1, Len(chars))))
        ELSE es

\* Vec::remove panics for an index past the end
DeleteCharPanics(es) ==
    /\ es.cursor_pos > Len(Chars[current_field_value(es)])
    /\ Chars[current_field_value(es)] # <<>>

\* EditState::next_field and prev_field
move_field(es, field) ==
    LET moved == [es EXCEPT !.focused_field = field]
    IN  [moved EXCEPT !.cursor_pos = Len(Chars[current_field_value(moved)])]

\* a handler that changes fields of App only
Stay(a) ==
    /\ app' = a
    /\ UNCHANGED <<items, item_versions, items_fts, seq, llm, last>>

\* run returns: quit, an error passed up by `?`, or a panic
Stopped(a) == [a EXCEPT !.should_quit = TRUE]

\* App::refresh_data with no category and no tag selected, after the
\* statements of the step: list_recent(100) and the clamp of the selection
refresh_data(a) ==
    \E order \in RowsByUpdatedDesc' :
        LET list == [k \in DOMAIN Limit(order, 100) |->
                        ItemOfRow(order[k], items'[order[k]])]
        IN  app' = [a EXCEPT
                       !.items = list,
                       !.selected_item_index =
                           IF @ >= Len(list) /\ list # <<>>
                           THEN Len(list) - 1 ELSE @]

\* self.items.get(self.selected_item_index)
selected_item(a) ==
    IF a.selected_item_index + 1 \in DOMAIN a.items
    THEN Some(a.items[a.selected_item_index + 1])
    ELSE None

\* App::delete_selected
delete_selected(a) ==
    IF selected_item(a) # None
    THEN [a EXCEPT !.confirm_dialog =
                       Some(ConfirmDialogDelete(selected_item(a)[1].name))]
    ELSE a

\* App::perform_delete: ItemStore::delete on the selected item, then
\* refresh_data
perform_delete(a) ==
    IF selected_item(a) # None /\ selected_item(a)[1].id # None
    THEN LET id == selected_item(a)[1].id[1]
         IN  /\ IF id \in DOMAIN items
                THEN /\ items' = Drop(items, id)
                     /\ items_fts' = items_ad(items_fts, id, items[id])
                     /\ item_versions' =
                            IF foreign_keys THEN Without(item_versions, id)
                            ELSE item_versions
                ELSE UNCHANGED <<items, items_fts, item_versions>>
             /\ Return("delete", Some(id), None, DeleteResult(id))
             /\ UNCHANGED <<seq, llm>>
             /\ refresh_data(a)
    ELSE Stay(a)

\* App::save_item: a validation error goes to the status line and nothing
\* is stored; otherwise insert or update, whose error ends run
save_item(a) ==
    LET item == a.edit_state.item
        saved == [a EXCEPT !.edit_state.has_changes = FALSE,
                           !.screen = "Main"]
    IN  IF validate(item) # <<>>
        THEN /\ app' = [a EXCEPT !.status_message = Some(validate(item))]
             /\ Return("save_item", item.id, None, "Validation")
             /\ UNCHANGED <<items, item_versions, items_fts, seq, llm>>
        ELSE IF a.edit_state.is_new
        THEN IF UniqueViolation(item.name, 0)
             THEN /\ app' = Stopped(a)
                  /\ Return("insert", None, None, "Conflict")
                  /\ UNCHANGED <<items, item_versions, items_fts, seq, llm>>
             ELSE /\ seq < MaxId
                  /\ LET id == NextRowid
                         row == InsertedRow(item)
                     IN  /\ items' = (id :> row) @@ items
                         /\ items_fts' = items_ai(items_fts, id, row)
                         /\ seq' = id
                         /\ Return("insert", Some(id), None, "Ok")
                  /\ UNCHANGED <<item_versions, llm>>
                  /\ refresh_data(saved)
        ELSE LET effect == UpdateEffect(item)
             IN  /\ WithinBounds(effect)
                 /\ items' = effect.items
                 /\ item_versions' = effect.item_versions
                 /\ items_fts' = effect.items_fts
                 /\ Return("update", item.id, None, effect.result)
                 /\ UNCHANGED <<seq, llm>>
                 /\ IF effect.result = "Ok" THEN refresh_data(saved)
                    ELSE app' = Stopped(a)

\* App::run_ai_completion: a new channel replaces the receiver and a thread
\* is spawned for the request built from the edited item
run_ai_completion(a) ==
    /\ Len(llm) < MaxRequests
    /\ llm' = Append(llm, [item |-> a.edit_state.item.id,
                           state |-> "running"])
    /\ app' = [a EXCEPT !.ai_popup_state.is_loading = TRUE,
                        !.ai_popup_state.error = None,
                        !.llm_receiver = Some(Len(llm) + 1)]
    /\ UNCHANGED <<items, item_versions, items_fts, seq, last>>

\* App::handle_dialog_key
handle_dialog_key(a, key) ==
    LET dialog == a.confirm_dialog[1]
        closed == [a EXCEPT !.confirm_dialog = None]
    IN  CASE key = "Tab" ->
                 Stay([a EXCEPT !.confirm_dialog =
                          Some([dialog EXCEPT !.selected = ~@])])
          [] key = "Enter" ->
                 IF dialog.selected /\ dialog.title = " Confirm Delete "
                 THEN perform_delete(closed)
                 ELSE IF dialog.selected /\ dialog.title = " Unsaved Changes "
                 THEN Stay([closed EXCEPT
                               !.screen = IF @ = "Edit" THEN "Main" ELSE @])
                 ELSE Stay(closed)
          [] key \in {"Esc", "q"} -> Stay(closed)
          [] OTHER -> Stay(a)

\* App::handle_ai_popup_key
handle_ai_popup_key(a, key) ==
    LET closed == [a EXCEPT !.show_ai_popup = FALSE,
                            !.ai_popup_state = AiPopupStateDefault]
    IN  CASE key = "Esc" -> Stay(closed)
          [] key = "Enter" ->
                 IF a.ai_popup_state.result # None
                 THEN LET result == a.ai_popup_state.result[1]
                      IN  Stay([closed EXCEPT
                                   !.edit_state.item.description =
                                       IF a.edit_state.focused_field =
                                              "Description"
                                       THEN result ELSE @,
                                   !.edit_state.item.content =
                                       IF a.edit_state.focused_field =
                                              "Description"
                                       THEN @ ELSE result,
                                   !.edit_state.has_changes = TRUE,
                                   !.screen = "Edit"])
                 ELSE run_ai_completion(a)
          [] OTHER -> Stay(a)

\* App::handle_vim_sequence
handle_vim_sequence(a, first, second) ==
    IF first = "d" /\ second = "d" THEN Stay(delete_selected(a)) ELSE Stay(a)

\* App::handle_main_key with the item list focused
handle_main_key(a, key) ==
    CASE key = "q" -> Stay([a EXCEPT !.should_quit = TRUE])
      [] key = "j" ->
             Stay([a EXCEPT !.selected_item_index =
                      IF a.items # <<>> /\ @ + 1 > Len(a.items) - 1
                      THEN Len(a.items) - 1
                      ELSE IF a.items # <<>> THEN @ + 1 ELSE @])
      [] key = "k" ->
             Stay([a EXCEPT !.selected_item_index =
                      IF @ = 0 THEN 0 ELSE @ - 1])
      [] key = "d" -> Stay([a EXCEPT !.pending_key = Some("d")])
      [] key = "Enter" ->
             Stay(IF a.items # <<>> THEN [a EXCEPT !.screen = "View"] ELSE a)
      [] key = "e" ->
             Stay(IF selected_item(a) # None
                  THEN [a EXCEPT !.edit_state = edit_item(selected_item(a)[1]),
                                 !.screen = "Edit"]
                  ELSE a)
      [] key = "n" ->
             Stay([a EXCEPT !.edit_state = new_item, !.screen = "Edit"])
      [] key = "Esc" ->
             /\ UNCHANGED <<items, item_versions, items_fts, seq, llm, last>>
             /\ refresh_data(a)
      [] OTHER -> Stay(a)

\* App::handle_view_key
handle_view_key(a, key) ==
    CASE key \in {"Esc", "q"} -> Stay([a EXCEPT !.screen = "Main"])
      [] key = "e" ->
             Stay(IF selected_item(a) # None
                  THEN [a EXCEPT !.edit_state = edit_item(selected_item(a)[1]),
                                 !.screen = "Edit"]
                  ELSE a)
      [] key = "d" -> Stay([a EXCEPT !.pending_key = Some("d")])
      [] key = "Ctrl+A" ->
             Stay(IF selected_item(a) # None
                  THEN [a EXCEPT
                           !.edit_state =
                               [edit_item(selected_item(a)[1]) EXCEPT
                                   !.focused_field = "Content"],
                           !.show_ai_popup = TRUE]
                  ELSE a)
      [] OTHER -> Stay(a)

\* App::handle_edit_key
handle_edit_key(a, key) ==
    LET es == a.edit_state
        multiline == es.focused_field \in {"Content", "Description"}
    IN  IF es.show_category_dropdown
        THEN CASE key = "Esc" ->
                      Stay([a EXCEPT
                               !.edit_state.show_category_dropdown = FALSE])
               [] key \in {"Enter", " "} ->
                      Stay([a EXCEPT
                               !.edit_state.item.category =
                                   CategoryAll[es.category_dropdown_index + 1],
                               !.edit_state.show_category_dropdown = FALSE,
                               !.edit_state.has_changes = TRUE])
               [] key = "j" ->
                      Stay([a EXCEPT !.edit_state.category_dropdown_index =
                               (@ + 1) % Len(CategoryAll)])
               [] key = "k" ->
                      Stay([a EXCEPT !.edit_state.category_dropdown_index =
                               (@ + Len(CategoryAll) - 1) % Len(CategoryAll)])
               [] OTHER -> Stay(a)
        ELSE CASE key = "Esc" ->
                      Stay(IF es.has_changes
                           THEN [a EXCEPT
                                    !.confirm_dialog = Some(discard_changes)]
                           ELSE [a EXCEPT !.screen = "Main"])
               [] key = "Tab" ->
                      Stay([a EXCEPT !.edit_state =
                               move_field(es, EditFieldNext(es.focused_field,
                                                            es.item.category))])
               [] key = "BackTab" ->
                      Stay([a EXCEPT !.edit_state =
                               move_field(es, EditFieldPrev(es.focused_field,
                                                            es.item.category))])
               [] key = "Ctrl+S" -> save_item(a)
               [] key = "Ctrl+A" ->
                      Stay(IF multiline THEN [a EXCEPT !.show_ai_popup = TRUE]
                           ELSE a)
               [] key \in {" ", "Enter"} ->
                      Stay(IF es.focused_field = "Category"
                           THEN [a EXCEPT
                                    !.edit_state.category_dropdown_index =
                                        CategoryPosition(es.item.category),
                                    !.edit_state.show_category_dropdown = TRUE]
                           ELSE IF multiline
                           THEN [a EXCEPT !.edit_state =
                                    insert_char_at_cursor(
                                        es, IF key = "Enter" THEN "\n"
                                            ELSE " ")]
                           ELSE a)
               [] key \in CharKeys \ {" "} ->
                      Stay(IF es.focused_field # "Category"
                           THEN [a EXCEPT !.edit_state =
                                    insert_char_at_cursor(es, key)]
                           ELSE a)
               [] key = "Backspace" ->
                      Stay(IF DeleteCharPanics(es) THEN Stopped(a)
                           ELSE [a EXCEPT !.edit_state =
                                    delete_char_before_cursor(es)])
               [] OTHER -> Stay(a)

\* the keys this model presses on the edit screen: "z" is typed into the
\* name and the content of a new item, " " into the content and the
\* description, while the field is empty; Backspace is pressed in the name, the
\* description and the content; Enter is not typed into a text; the
\* dropdown is not moved past Skill
KeyPressed(key) ==
    LET es == app.edit_state
        text == Chars[current_field_value(es)]
    IN  (app.screen = "Edit" /\ app.confirm_dialog = None
                            /\ ~app.show_ai_popup) =>
          IF es.show_category_dropdown
          THEN key = "j" => es.category_dropdown_index < 2
          ELSE /\ key \in CharKeys =>
                     /\ key \in {"z", " "}
                     /\ key = "z" =>
                           es.is_new /\ es.focused_field \in {"Name", "Content"}
                     /\ key = " " =>
                           es.focused_field \in {"Description", "Content"}
                     /\ text = <<>>
               /\ key = "Enter" => es.focused_field = "Category"
               /\ key = "Backspace" =>
                     es.focused_field \in {"Name", "Description", "Content"}

\* App::handle_key for a key press
HandleKey(key) ==
    /\ ~app.should_quit
    /\ KeyPressed(key)
    /\ LET a == [app EXCEPT !.status_message = None]
       IN  IF a.confirm_dialog # None THEN handle_dialog_key(a, key)
           ELSE IF a.show_ai_popup THEN handle_ai_popup_key(a, key)
           ELSE IF a.pending_key # None
           THEN handle_vim_sequence([a EXCEPT !.pending_key = None],
                                    a.pending_key[1], key)
           ELSE CASE a.screen = "Main" -> handle_main_key(a, key)
                  [] a.screen = "View" -> handle_view_key(a, key)
                  [] a.screen = "Edit" -> handle_edit_key(a, key)
    /\ UNCHANGED <<settings, now, foreign_keys, search_state, pending>>

\* App::poll_llm_response, called by run before each key is read: a message
\* on the channel becomes the popup's result or error, whether or not the
\* popup is open (a thread always sends, so the channel never disconnects)
PollLlmResponse ==
    /\ ~app.should_quit
    /\ app.llm_receiver # None
    /\ LET c == app.llm_receiver[1]
       IN  /\ llm[c].state # "running"
           /\ app' = [app EXCEPT
                         !.ai_popup_state.result =
                             IF llm[c].state = "ok" THEN Some(Response(c))
                             ELSE @,
                         !.ai_popup_state.error =
                             IF llm[c].state = "ok" THEN @
                             ELSE Some(llm[c].state),
                         !.ai_popup_state.is_loading = FALSE,
                         !.llm_receiver = None]
    /\ UNCHANGED <<store, now, foreign_keys, search_state, pending, llm, last>>

\* a thread that writes its response into the item it was started for
LlmThreadWrites(c, outcome) ==
    /\ c \in DOMAIN llm
    /\ llm[c].state = "running"
    /\ llm' = [llm EXCEPT ![c].state = outcome]
    /\ items' = [id \in DOMAIN items |->
                    IF llm[c].item = Some(id)
                    THEN [items[id] EXCEPT !.content = Response(c)]
                    ELSE items[id]]
    /\ UNCHANGED <<item_versions, items_fts, settings, seq, now,
                   foreign_keys, search_state, pending, app, last>>

\* the thread spawned by run_ai_completion: complete_sync returns Ok or Err,
\* the thread sends it over its channel and ends
LlmThread(c, outcome) ==
    /\ c \in DOMAIN llm
    /\ llm[c].state = "running"
    /\ llm' = [llm EXCEPT ![c].state = outcome]
    /\ UNCHANGED <<store, now, foreign_keys, search_state, pending, app, last>>

\* the items found in the database file when the App opens
StoredItems ==
    <<[ItemDefault EXCEPT !.name = "x", !.content = "d"],
      [ItemDefault EXCEPT !.name = "y", !.content = "d",
                          !.category = "Agent", !.description = "d"]>>

\* a database file holding some of these items, and the App opened on it
InitApp ==
    /\ now = 0
    /\ \E n \in 0 .. Len(StoredItems) :
          /\ items = [id \in 1 .. n |-> InsertedRow(StoredItems[id])]
          /\ seq = n
    /\ item_versions = <<>>
    /\ items_fts = SetToBag({FtsEntry(id, items[id]) : id \in DOMAIN items})
    /\ settings = {}
    /\ foreign_keys \in BOOLEAN
    /\ last = [op |-> "none", id |-> None, version |-> None, result |-> "Ok"]
    /\ search_state = SearchStateDefault
    /\ pending = [w \in Writers |-> None]
    /\ llm = <<>>
    /\ \E order \in RowsByUpdatedDesc :
          app = [AppNew EXCEPT
                    !.items = [k \in DOMAIN order |->
                                  ItemOfRow(order[k], items[order[k]])]]

NextDialog == \E key \in DialogKeys : HandleKey(key)

SpecDialog == InitApp /\ [][NextDialog]_vars

NextSave == \E key \in SaveKeys : HandleKey(key)

SpecSave == InitApp /\ [][NextSave]_vars

NextLlm ==
    \/ \E key \in LlmKeys : HandleKey(key)
    \/ PollLlmResponse
    \/ \E c \in 1 .. MaxRequests, outcome \in {"ok", "err"} :
          LlmThread(c, outcome)

SpecLlm == InitApp /\ [][NextLlm]_vars

(* ---- properties ---- *)

\* the versions of item id: those of its snapshot rows and the current one
VersionsOf(id) == <<items[id].version>> \o SnapshotVersions(id)

\* C1: for every item in the primary table, the current version and the
\* versions of its snapshot rows are exactly 1..current, each occurring once
C1_DenseVersions ==
    \A id \in DOMAIN items :
        LET vs == VersionsOf(id)
        IN  /\ \A k \in 1 .. Len(vs) : vs[k] \in 1 .. items[id].version
            /\ \A n \in 1 .. items[id].version :
                   Cardinality({k \in 1 .. Len(vs) : vs[k] = n}) = 1

\* C2: the version of an item never decreases, a step raises it by at most
\* one, and the number of snapshot rows of the item grows exactly with the
\* version, so that after N successful updates the version is 1 + N and the
\* item has exactly N snapshot rows
C2_VersionMonotonic ==
    [][\A id \in DOMAIN items :
          id \in DOMAIN items' =>
            /\ items'[id].version \in {items[id].version, items[id].version + 1}
            /\ Len(SnapshotsOf(id))' - Len(SnapshotsOf(id))
                 = items'[id].version - items[id].version]_vars

\* C3: after a successful update of an item whose persisted version was v,
\* get_version(id, v) returns the fields persisted just before the update
C3_SnapshotBeforeWrite ==
    [][\A item \in CallerItems, id \in DOMAIN items, v \in CallVersions :
          ( /\ last'.op = "update"
            /\ last'.result = "Ok"
            /\ item.id = Some(id)
            /\ v = items[id].version
            /\ Update(item) )
          => /\ get_version(id, v)' # None
             /\ Fields(get_version(id, v)'[1]) = ItemFields(items[id])
             /\ get_version(id, v)'[1].version = v]_vars

\* C3 happens: an update went through and the version before it holds a
\* content that differs from the one the update wrote
C3_Witness ==
    /\ last.op = "update"
    /\ last.result = "Ok"
    /\ \E id \in DOMAIN items :
          /\ last.id = Some(id)
          /\ items[id].version >= 2
          /\ get_version(id, items[id].version - 1) # None
          /\ get_version(id, items[id].version - 1)[1].content
               # items[id].content

\* C4: an update that returns an error leaves the store unchanged, in
\* particular it adds no snapshot row
C4_UpdateAtomic ==
    [][\A item \in CallerItems :
          (last'.op = "update" /\ last'.result # "Ok" /\ Update(item))
          => UNCHANGED store]_vars

\* the largest version list_versions reports for an item
MaxListed(id) ==
    LET listed == list_versions(id)
    IN  CHOOSE m \in {listed[k].version : k \in 1 .. Len(listed)} :
            \A k \in 1 .. Len(listed) : listed[k].version <= m

\* C5: a successful restore_version(id, v) of an existing item and version
\* gives the item the version old current + 1, above every version listed
\* before, the content captured at v, and one more snapshot row holding the
\* state before the restore
C5_RestoreAdditive ==
    [][\A id \in DOMAIN items, v \in CallVersions :
          ( /\ last'.op = "restore_version"
            /\ last'.result = "Ok"
            /\ get_version(id, v) # None
            /\ RestoreVersion(id, v) )
          => /\ id \in DOMAIN items'
             /\ items'[id].version = items[id].version + 1
             /\ items'[id].version > MaxListed(id)
             /\ items'[id].content = get_version(id, v)[1].content
             /\ Len(item_versions') = Len(item_versions) + 1
             /\ SubSeq(item_versions', 1, Len(item_versions)) = item_versions
             /\ LET added == item_versions'[Len(item_versions')]
                IN  /\ added.item_id = id
                    /\ added.version = items[id].version
                    /\ Fields(added) = Fields(items[id])]_vars

\* C5 happens: insert, one update that changed the content, then
\* restore_version(id, 1): version 3, the first content, snapshots 1 and 2
C5_Witness ==
    /\ last.op = "restore_version"
    /\ last.result = "Ok"
    /\ last.version = Some(1)
    /\ \E id \in DOMAIN items :
          /\ last.id = Some(id)
          /\ items[id].version = 3
          /\ SnapshotVersions(id) = <<1, 2>>
          /\ SnapshotsOf(id)[1].content = items[id].content
          /\ SnapshotsOf(id)[2].content # items[id].content

\* C6: an insert whose name is the name of an item in the store fails with
\* Conflict and leaves rows, snapshots, index and row counter unchanged
C6_InsertConflict ==
    [][\A p \in Payloads :
          ( /\ last'.op = "insert"
            /\ \E j \in DOMAIN items : items[j].name = p.name
            /\ Insert(p) )
          => (last'.result = "Conflict" /\ UNCHANGED store)]_vars

\* C6 happens: an insert was rejected while the store holds an item
C6_Witness ==
    /\ last.op = "insert"
    /\ last.result = "Conflict"
    /\ DOMAIN items # {}

\* C7: delete of an id that is not in the store succeeds and leaves items,
\* snapshots, index and settings unchanged; after any delete the id is not
\* in the store, so a second delete of it changes nothing
C7_DeleteIdempotent ==
    [][\A id \in CallIds :
          (last'.op = "delete" /\ Delete(id)) =>
            /\ last'.result = "Ok"
            /\ id \notin DOMAIN items'
            /\ id \notin DOMAIN items => UNCHANGED store]_vars

\* C7 happens: a delete of an id that was never assigned returned success
C7_Witness ==
    /\ last.op = "delete"
    /\ last.result = "Ok"
    /\ \E id \in CallIds : last.id = Some(id) /\ seq < id
    /\ DOMAIN items # {}

\* C8: after delete(id) of an existing item the row, every snapshot row of
\* id and the index entry of id are gone
C8_DeleteCascades ==
    [][\A id \in DOMAIN items :
          (last'.op = "delete" /\ Delete(id)) =>
            /\ get(id)' = None
            /\ \A v \in CallVersions : get_version(id, v)' = None
            /\ \A e \in BagToSet(items_fts') : e.rowid # id
            /\ \A q \in Names \cup Contents : id \notin search(q)']_vars

\* C9: update with an identifier that is not in the store fails with
\* NotFound, update without an identifier fails, and both change nothing
C9_UpdateNotFound ==
    [][\A item \in CallerItems :
          (last'.op = "update" /\ Update(item)) =>
            /\ item.id = None => (last'.result # "Ok" /\ UNCHANGED store)
            /\ (item.id # None /\ item.id[1] \notin DOMAIN items)
                 => (last'.result = "NotFound" /\ UNCHANGED store)]_vars

\* C10: restore_version(id, v) fails with NotFound and leaves the store
\* unchanged when v is neither the current version of id nor the version of
\* one of its snapshot rows
C10_RestoreNotFound ==
    [][\A id \in CallIds, v \in CallVersions :
          ( /\ last'.op = "restore_version"
            /\ id \in DOMAIN items => items[id].version # v
            /\ SnapshotsAt(id, v) = {}
            /\ RestoreVersion(id, v) )
          => (last'.result = "NotFound" /\ UNCHANGED store)]_vars

\* C10 happens: restore_version was refused for an existing item that has a
\* snapshot, at a version that is neither current nor a snapshot
C10_Witness ==
    /\ last.op = "restore_version"
    /\ last.result = "NotFound"
    /\ \E id \in DOMAIN items, v \in CallVersions :
          /\ last.id = Some(id)
          /\ last.version = Some(v)
          /\ items[id].version # v
          /\ SnapshotsOf(id) # <<>>
          /\ SnapshotsAt(id, v) = {}

\* the index holds one entry per row of items, with the values of the row
IndexMatchesRows ==
    /\ BagToSet(items_fts) = {FtsEntry(id, items[id]) : id \in DOMAIN items}
    /\ \A e \in BagToSet(items_fts) : CopiesIn(e, items_fts) = 1

\* C11: after every step the search index holds exactly one entry per item
\* of the primary table, with the name, description, content and tags of the
\* current row; after a successful update that changes the content, a search
\* for the old content no longer returns the item and a search for the new
\* content does
C11_IndexConsistent ==
    [][/\ IndexMatchesRows'
       /\ \A item \in CallerItems, id \in DOMAIN items, old \in Contents :
             ( /\ last'.op = "update"
               /\ last'.result = "Ok"
               /\ item.id = Some(id)
               /\ old = items[id].content
               /\ old \notin {item.name, item.description, item.content, item.tags}
               /\ Update(item) )
             => /\ id \notin search(old)'
                /\ id \in search(item.content)']_vars

\* C11 happens: an update replaced the content of an item; the old content
\* is in the snapshot, the index finds the item under the new content only
C11_Witness ==
    /\ last.op = "update"
    /\ last.result = "Ok"
    /\ \E id \in DOMAIN items :
          /\ last.id = Some(id)
          /\ SnapshotsOf(id) # <<>>
          /\ LET before == SnapshotsOf(id)[Len(SnapshotsOf(id))]
             IN  /\ before.content # items[id].content
                 /\ id \notin search(before.content)
                 /\ id \in search(items[id].content)

\* the token between positions a and b of the characters s, in lower case
TokenAt(s, a, b) == [k \in 1 .. b - a + 1 |-> LowerChar(s[a + k - 1])]

\* the positions of the characters of the tags columns
TagPositions == UNION {DOMAIN Chars[tags] : tags \in TagInputs \ {NULL}}

\* the places <<id, a, b>> where a tag stands in the tags column of an item:
\* a and b are its first and last character, neither is a space, and only
\* spaces lie between it and the commas (or the ends of the text) around it
TagPlaces ==
    {pl \in (DOMAIN items) \X TagPositions \X TagPositions :
        /\ items[pl[1]].tags # NULL
        /\ LET s == Chars[items[pl[1]].tags]
               a == pl[2]
               b == pl[3]
           IN  /\ a <= b /\ b <= Len(s)
               /\ s[a] # " " /\ s[b] # " "
               /\ \A k \in a .. b : s[k] # ","
               /\ \E i \in 1 .. a :
                     /\ i = 1 \/ s[i - 1] = ","
                     /\ \A k \in i .. a - 1 : s[k] = " "
               /\ \E j \in b .. Len(s) :
                     /\ j = Len(s) \/ s[j + 1] = ","
                     /\ \A k \in b + 1 .. j : s[k] = " "}

\* the tag standing at a place
TagAtPlace(pl) == TokenAt(Chars[items[pl[1]].tags], pl[2], pl[3])

\* s is before t in byte-wise lexicographic order
StrBefore(s, t) ==
    \E k \in 1 .. Len(t) :
        /\ \A j \in 1 .. k - 1 : j <= Len(s) /\ s[j] = t[j]
        /\ k > Len(s) \/ Byte[s[k]] < Byte[t[k]]

\* C12: get_tags_with_counts returns one pair per distinct non-empty tag
\* (the comma-separated pieces of the tags columns, trimmed and in lower
\* case), the pair's count is the number of places the tag stands at over
\* all items, and the pairs are in descending count order, equal counts in
\* ascending tag order; the tags "Go, rust", "go", "RUST, go" give
\* [("go", 3), ("rust", 2)]
C12_TagCounts ==
    last.op = "get_tags_with_counts" =>
        LET r == last.result
        IN  /\ {r[k][1] : k \in 1 .. Len(r)} = {TagAtPlace(pl) : pl \in TagPlaces}
            /\ \A k \in 1 .. Len(r) :
                   r[k][2] = Cardinality({pl \in TagPlaces : TagAtPlace(pl) = r[k][1]})
            /\ \A j, k \in 1 .. Len(r) :
                   j < k => \/ r[j][2] > r[k][2]
                            \/ r[j][2] = r[k][2] /\ StrBefore(r[j][1], r[k][1])
            /\ ( /\ DOMAIN items = 1 .. 3
                 /\ items[1].tags = "Go, rust"
                 /\ items[2].tags = "go"
                 /\ items[3].tags = "RUST, go" )
               => r = << <<Chars["go"], 3>>, << <<"r", "u", "s", "t">>, 2>> >>

\* C12 happens: the tags were read from a store where two tags have the same
\* count, one item has a tag twice and the letter case differs between items
C12_Witness ==
    /\ last.op = "get_tags_with_counts"
    /\ Len(last.result) = 3
    /\ last.result[1][2] = 2
    /\ last.result[2][2] = 2
    /\ last.result[1][1] = Chars["go"]
    /\ \E id \in DOMAIN items : items[id].tags = "rust,go,go"
    /\ \E id \in DOMAIN items : items[id].tags = " ,Rust ,"

\* the items the validation rules of the store contract exclude
Rejected(item) ==
    \/ item.name = ""
    \/ item.content = ""
    \/ item.category \in {"Agent", "Skill"} /\ item.description = NULL

\* C13 as stated: ItemStore::insert of an item with an empty name, an empty
\* content or (Agent, Skill) no description fails with Validation and leaves
\* the store unchanged; a Prompt without description is inserted
C13_InsertValidates ==
    [][\A item \in FormItems :
          (last'.op = "insert" /\ item.id = None /\ Insert(item)) =>
            /\ Rejected(item) =>
                  (last'.result = "Validation" /\ UNCHANGED store)
            /\ ( /\ ~Rejected(item)
                 /\ item.category = "Prompt" /\ item.description = NULL
                 /\ ~UniqueViolation(item.name, 0) )
               => last'.result = "Ok"]_vars

\* C13, amended: saving a new item with an empty name, an empty content or
\* (Agent, Skill) no description from the edit screen is refused by
\* Item::validate before ItemStore::insert is called and the store is
\* unchanged; a Prompt without description and with an unused name is
\* inserted; ItemStore::insert called directly does not validate and stores
\* an excluded item whose name is unused
C13_SaveValidates ==
    [][\A item \in FormItems :
          /\ ( /\ last'.op \in {"save_item", "insert"}
               /\ item.id = None
               /\ SaveItem(item, TRUE) )
             => /\ Rejected(item) =>
                      /\ last'.op = "save_item"
                      /\ last'.result = "Validation"
                      /\ UNCHANGED store
                /\ ( /\ ~Rejected(item)
                     /\ item.category = "Prompt" /\ item.description = NULL
                     /\ ~UniqueViolation(item.name, 0) )
                   => /\ last'.op = "insert"
                      /\ last'.result = "Ok"
                      /\ Fields(items'[seq']) = RowFields(item)
          /\ ( /\ last'.op = "insert"
               /\ item.id = None
               /\ Rejected(item)
               /\ ~UniqueViolation(item.name, 0)
               /\ Insert(item) )
             => /\ last'.result = "Ok"
                /\ Fields(items'[seq']) = RowFields(item)]_vars

\* C13 happens: a save was refused while the store holds an Agent without
\* description that ItemStore::insert accepted
C13_Witness ==
    /\ last.op = "save_item"
    /\ last.result = "Validation"
    /\ \E id \in DOMAIN items :
          items[id].category = "agent" /\ items[id].description = NULL

\* the stored records of item id that carry version v: the current row
\* (position 0) and the snapshot rows
RecordsAt(id, v) ==
    {k \in {0} : id \in DOMAIN items /\ items[id].version = v}
        \cup SnapshotsAt(id, v)

\* C14: get_version(id, v) returns the current row when v is the current
\* version, otherwise the snapshot row with version v, otherwise nothing; for
\* every item and every v from 1 to its current version the result is found
\* and exactly one stored record carries (id, v)
C14_GetVersion ==
    \A id \in DOMAIN items, v \in CallVersions :
        /\ v = items[id].version
              => get_version(id, v) = Some(ItemOfRow(id, items[id]))
        /\ (v # items[id].version /\ SnapshotsAt(id, v) # {})
              => \E k \in SnapshotsAt(id, v) :
                    get_version(id, v) = Some(ItemOfSnapshot(item_versions[k]))
        /\ (v # items[id].version /\ SnapshotsAt(id, v) = {})
              => get_version(id, v) = None
        /\ v <= items[id].version
              => /\ get_version(id, v) # None
                 /\ Cardinality(RecordsAt(id, v)) = 1

\* C15: for an item of the store, list_versions returns the current version
\* first, as the only entry marked current, then one entry per snapshot row
\* in strictly descending version order, and the version of the first entry
\* is greater than that of every other entry
C15_ListVersionsOrder ==
    \A id \in DOMAIN items :
        LET listed == list_versions(id)
        IN  /\ Len(listed) = 1 + Len(SnapshotsOf(id))
            /\ listed[1].is_current
            /\ listed[1].version = items[id].version
            /\ \A k \in 2 .. Len(listed) :
                   /\ ~listed[k].is_current
                   /\ listed[k].version < listed[1].version
                   /\ k > 2 => listed[k].version < listed[k - 1].version
                   /\ SnapshotsAt(id, listed[k].version) # {}

\* C16: list_versions(id) is the empty list whenever no row of items has the
\* id, also after the item was deleted following updates
C16_ListVersionsOfMissing ==
    \A id \in CallIds : id \notin DOMAIN items => list_versions(id) = <<>>

\* C17: after every step no two rows of items have the same name; an update
\* or a restore_version that would give an item the name of another item is
\* rejected with a conflict and leaves the rows and the index as they were
C17_NamesUnique ==
    [][/\ \A i, j \in DOMAIN items' :
             items'[i].name = items'[j].name => i = j
       /\ \A item \in CallerItems :
             ( /\ last'.op = "update"
               /\ item.id # None
               /\ \E i, j \in DOMAIN items :
                     item.id = Some(i) /\ j # i /\ items[j].name = item.name
               /\ Update(item) )
             => /\ last'.result = "Conflict"
                /\ UNCHANGED <<items, items_fts>>
       /\ \A id \in DOMAIN items, v \in CallVersions :
             ( /\ last'.op = "restore_version"
               /\ get_version(id, v) # None
               /\ \E j \in DOMAIN items :
                     j # id /\ items[j].name = get_version(id, v)[1].name
               /\ RestoreVersion(id, v) )
             => /\ last'.result = "Conflict"
                /\ UNCHANGED <<items, items_fts>>]_vars

\* C17 happens: an item was renamed, another item took its old name, and
\* the restore of the version with the old name was rejected
C17_Witness ==
    /\ last.op = "restore_version"
    /\ last.result = "Conflict"
    /\ \E id, j \in DOMAIN items, v \in CallVersions :
          /\ last.id = Some(id)
          /\ last.version = Some(v)
          /\ j # id
          /\ get_version(id, v) # None
          /\ get_version(id, v)[1].name = items[j].name

\* C18: a successful insert gives the new item version 1 and adds no snapshot
\* row, so list_versions of the new id has exactly one entry, the current
\* one, whatever version the item passed by the caller carried
C18_InsertVersionOne ==
    [][\A p \in Payloads, v \in CallVersions, id \in CallIds :
          ( /\ last'.op = "insert"
            /\ last'.result = "Ok"
            /\ id = seq + 1
            /\ Insert(CallerItem(None, p, v)) )
          => /\ last'.id = Some(id)
             /\ items'[id].version = 1
             /\ item_versions' = item_versions
             /\ SnapshotsOf(id)' = <<>>
             /\ Len(list_versions(id)') = 1
             /\ list_versions(id)'[1].is_current
             /\ list_versions(id)'[1].version = 1]_vars

\* C18 happens: an item was inserted into a store that holds snapshot rows
\* of an older item, and its history is the current version alone
C18_Witness ==
    /\ last.op = "insert"
    /\ last.result = "Ok"
    /\ item_versions # <<>>
    /\ \E id \in DOMAIN items :
          /\ last.id = Some(id)
          /\ items[id].version = 1
          /\ Len(list_versions(id)) = 1

\* the sum of the counts of the pairs of a result
RECURSIVE SumOfCounts(_)
SumOfCounts(r) == IF r = <<>> THEN 0 ELSE Head(r)[2] + SumOfCounts(Tail(r))

\* C19: count_by_category returns exactly one pair for each category that
\* has an item, with the number of items of the category, no pair for a
\* category without items, and the counts add up to the number of items
C19_CategoryCounts ==
    last.op = "count_by_category" =>
        LET r == last.result
        IN  /\ \A c \in Categories :
                   LET members == {id \in DOMAIN items :
                                      items[id].category = as_str(c)}
                       pairs == {k \in 1 .. Len(r) : r[k][1] = c}
                   IN  /\ members = {} => pairs = {}
                       /\ members # {} =>
                             /\ Cardinality(pairs) = 1
                             /\ \A k \in pairs : r[k][2] = Cardinality(members)
            /\ \A k \in 1 .. Len(r) : r[k][1] \in Categories
            /\ SumOfCounts(r) = Cardinality(DOMAIN items)

\* C19 happens: the counts were read from a store with two items of one
\* category, one of another and none of the remaining two
C19_Witness ==
    /\ last.op = "count_by_category"
    /\ Len(last.result) = 2
    /\ Cardinality(DOMAIN items) = 3
    /\ \E k \in 1 .. 2 : last.result[k] = <<"Agent", 2>>

\* C20: list_recent(limit) returns min(limit, number of items) distinct
\* items of the store in non-increasing updated_at order, and every item it
\* leaves out was updated no later than every item it returns
C20_ListRecent ==
    [][\A limit \in Limits :
          (last'.op = "list_recent" /\ ListRecent(limit)) =>
            LET r == last'.result
                returned == {r[k].id[1] : k \in 1 .. Len(r)}
            IN  /\ Len(r) = IF limit < Cardinality(DOMAIN items)
                             THEN limit ELSE Cardinality(DOMAIN items)
                /\ Cardinality(returned) = Len(r)
                /\ \A k \in 1 .. Len(r) :
                       /\ r[k].id[1] \in DOMAIN items
                       /\ r[k] = ItemOfRow(r[k].id[1], items[r[k].id[1]])
                /\ \A j, k \in 1 .. Len(r) :
                       j < k => r[j].updated_at[1] >= r[k].updated_at[1]
                /\ \A id \in DOMAIN items \ returned :
                       \A k \in 1 .. Len(r) :
                           items[id].updated_at <= r[k].updated_at[1]]_vars

\* C20 happens: list_recent(1) on two items returned the item with the
\* smaller id, which was updated after the other one was inserted
C20_Witness ==
    /\ last.op = "list_recent"
    /\ Len(last.result) = 1
    /\ DOMAIN items = {1, 2}
    /\ last.result[1].id = Some(1)
    /\ items[1].updated_at > items[2].updated_at

\* tag occurs in text as a run of consecutive, identical characters
Contains(text, tag) ==
    \E offset \in 0 .. Len(text) - Len(tag) :
        \A k \in 1 .. Len(tag) : tag[k] = text[offset + k]

\* tag occurs in text when the case of ASCII letters is ignored and an
\* underscore of tag stands for any one character
ContainsFolded(text, tag) ==
    \E offset \in 0 .. Len(text) - Len(tag) :
        \A k \in 1 .. Len(tag) :
            \/ tag[k] = "_"
            \/ to_lowercase(<<tag[k]>>) = to_lowercase(<<text[offset + k]>>)

\* C21 as stated: list_by_tag(tag) returns exactly the items whose tags
\* string contains tag as a substring, none whose tags are absent, in
\* non-increasing updated_at order
C21_ListByTagSubstring ==
    [][\A tag \in TagQueries :
          (last'.op = "list_by_tag" /\ ListByTag(tag)) =>
            LET r == last'.result
            IN  /\ {r[k].id[1] : k \in 1 .. Len(r)} =
                     {id \in DOMAIN items :
                         /\ items[id].tags # NULL
                         /\ Contains(Chars[items[id].tags], Chars[tag])}
                /\ \A j, k \in 1 .. Len(r) :
                       j < k => r[j].updated_at[1] >= r[k].updated_at[1]]_vars

\* C21, amended: list_by_tag(tag) returns exactly the items whose tags
\* string is present and contains tag as a substring when the case of ASCII
\* letters is ignored and an underscore of tag matches any one character
\* (so "go" returns items tagged "golang" and "Go, rust"), each item once,
\* in non-increasing updated_at order
C21_ListByTagLike ==
    [][\A tag \in TagQueries :
          (last'.op = "list_by_tag" /\ ListByTag(tag)) =>
            LET r == last'.result
            IN  /\ {r[k].id[1] : k \in 1 .. Len(r)} =
                     {id \in DOMAIN items :
                         /\ items[id].tags # NULL
                         /\ ContainsFolded(Chars[items[id].tags], Chars[tag])}
                /\ \A j, k \in 1 .. Len(r) : r[j].id = r[k].id => j = k
                /\ \A k \in 1 .. Len(r) :
                       r[k] = ItemOfRow(r[k].id[1], items[r[k].id[1]])
                /\ \A j, k \in 1 .. Len(r) :
                       j < k => r[j].updated_at[1] >= r[k].updated_at[1]]_vars

\* C21 happens: a listing returned the item tagged "Go, rust" before the
\* older item tagged "golang"
C21_Witness ==
    /\ last.op = "list_by_tag"
    /\ Len(last.result) = 2
    /\ last.result[1].tags = "Go, rust"
    /\ last.result[2].tags = "golang"
    /\ last.result[1].updated_at[1] > last.result[2].updated_at[1]

\* C24: the settings table holds at most one row per key; after set(k, v)
\* get(k) returns v, after delete(k) it returns nothing, and both leave the
\* value of every other key and the items, snapshots and index unchanged;
\* no other call changes what get returns, so get(k) is the value of the
\* last set(k, _) that no delete(k) followed
C24_SettingsLastWriteWins ==
    [][/\ \A k \in MapKeys : Cardinality({r \in settings' : r.key = k}) <= 1
       /\ \A k \in MapKeys, v \in MapValues :
             SettingsSet(k, v) =>
               /\ settings_get(k)' = Some(v)
               /\ \A j \in MapKeys \ {k} : settings_get(j)' = settings_get(j)
               /\ UNCHANGED <<items, item_versions, items_fts, seq>>
       /\ \A k \in MapKeys :
             SettingsDelete(k) =>
               /\ settings_get(k)' = None
               /\ \A j \in MapKeys \ {k} : settings_get(j)' = settings_get(j)
               /\ UNCHANGED <<items, item_versions, items_fts, seq>>
       /\ ( /\ \A k \in MapKeys, v \in MapValues : ~SettingsSet(k, v)
            /\ \A k \in MapKeys : ~SettingsDelete(k) )
          => \A k \in MapKeys : settings_get(k)' = settings_get(k)]_vars

\* C24 happens: both keys are set, to different values, next to an item
C24_Witness ==
    /\ settings_get("api_key") = Some("k2")
    /\ settings_get("model") = Some("k1")
    /\ DOMAIN items # {}

\* the number of entries the index fts holds for the rowid id
EntriesOf(fts, id) ==
    BagCardinality([e \in {e \in BagToSet(fts) : e.rowid = id} |-> CopiesIn(e, fts)])

\* C25: while the UPDATE of a successful update runs its trigger, the index
\* never holds more than one entry for the item: the old entry is taken out
\* by the first statement of the trigger and the new one added by the
\* second; and after every step the index holds at most one entry per id
C25_IndexRemoveBeforeAdd ==
    [][/\ \A id \in CallIds : EntriesOf(items_fts', id) <= 1
       /\ \A item \in CallerItems, id \in DOMAIN items :
             ( /\ last'.op = "update"
               /\ last'.result = "Ok"
               /\ item.id = Some(id)
               /\ Update(item) )
             => LET steps == items_au_steps(items_fts, id, items[id],
                                            UpdatedRow(items[id], item))
                IN  /\ EntriesOf(steps[1], id) = 0
                    /\ EntriesOf(steps[2], id) = 1
                    /\ items_fts' = steps[2]
                    /\ \A j \in CallIds \ {id} :
                          /\ EntriesOf(steps[1], j) = EntriesOf(items_fts, j)
                          /\ EntriesOf(steps[2], j) = EntriesOf(items_fts, j)]_vars

\* C25 happens: an item was updated twice next to another item, and the
\* index holds one entry for each
C25_Witness ==
    /\ last.op = "update"
    /\ last.result = "Ok"
    /\ Cardinality(DOMAIN items) = 2
    /\ \E id \in DOMAIN items :
          /\ last.id = Some(id)
          /\ items[id].version = 3
          /\ EntriesOf(items_fts, id) = 1

\* C26: snapshot rows are never changed: every step other than a delete
\* keeps the rows of item_versions as they are and at most appends to them,
\* and a delete removes no snapshot row of another item
C26_HistoryAppendOnly ==
    [][/\ last'.op # "delete" =>
             /\ Len(item_versions') >= Len(item_versions)
             /\ SubSeq(item_versions', 1, Len(item_versions)) = item_versions
       /\ \A id \in CallIds :
             (last'.op = "delete" /\ Delete(id)) =>
               /\ \A j \in CallIds \ {id} : SnapshotsOf(j)' = SnapshotsOf(j)
               /\ SnapshotsOf(id)' \in {<<>>, SnapshotsOf(id)}
               /\ id \notin DOMAIN items => item_versions' = item_versions]_vars

\* C26 happens: two items had a snapshot each, one of the items was deleted
\* with its snapshot and the snapshot of the other one is still there
C26_Witness ==
    /\ last.op = "delete"
    /\ Len(item_versions) = 1
    /\ \E id \in CallIds, j \in DOMAIN items :
          /\ last.id = Some(id)
          /\ id \notin DOMAIN items
          /\ id <= seq
          /\ items[j].version = 2
          /\ SnapshotVersions(j) = <<1>>

\* C27: a successful update or restore_version of an item of the store (a
\* step of the store, not of the clock) keeps
\* the set of ids, the id and created_at of the item, and the row, the
\* snapshot rows and the index entry of every other item; it appends one
\* snapshot row of the item and leaves the row counter and the settings alone
C27_UpdateFrame ==
    [][\A id \in DOMAIN items :
          ( /\ last'.op \in {"update", "restore_version"}
            /\ last'.result = "Ok"
            /\ last'.id = Some(id)
            /\ now' = now )
          => /\ DOMAIN items' = DOMAIN items
             /\ items'[id].created_at = items[id].created_at
             /\ Len(SnapshotsOf(id)') = Len(SnapshotsOf(id)) + 1
             /\ SubSeq(SnapshotsOf(id)', 1, Len(SnapshotsOf(id))) = SnapshotsOf(id)
             /\ Len(item_versions') = Len(item_versions) + 1
             /\ \A j \in DOMAIN items \ {id} :
                   /\ items'[j] = items[j]
                   /\ SnapshotsOf(j)' = SnapshotsOf(j)
                   /\ {e \in BagToSet(items_fts') : e.rowid = j}
                        = {e \in BagToSet(items_fts) : e.rowid = j}
             /\ UNCHANGED <<seq, settings>>]_vars

\* C27 happens: an item created a second earlier was updated next to another
\* item that has a snapshot of its own
C27_Witness ==
    /\ last.op = "update"
    /\ last.result = "Ok"
    /\ \E id, j \in DOMAIN items :
          /\ last.id = Some(id)
          /\ j # id
          /\ items[id].created_at < items[id].updated_at
          /\ SnapshotsOf(j) # <<>>
          /\ SnapshotsOf(id) # <<>>

\* C29: a successful update or restore_version of an item of the store makes
\* its updated_at later than it was, and a list_recent with a limit of at
\* least 1 issued right after it returns the item first, in whatever order
\* the rows with equal updated_at come
C29_UpdatedAtAdvances ==
    [][\A id \in DOMAIN items :
          ( /\ last'.op \in {"update", "restore_version"}
            /\ last'.result = "Ok"
            /\ last'.id = Some(id)
            /\ now' = now )
          => /\ items'[id].updated_at > items[id].updated_at
             /\ \A order \in RowsByUpdatedDesc' :
                   \A limit \in Limits \ {0} : Limit(order, limit)[1] = id]_vars

\* C28: get, list_recent, list_by_category, list_by_tag, search,
\* count_by_category, get_tags_with_counts, list_versions and get_version
\* leave items, snapshots, index, settings and the row counter unchanged, and
\* get(id) returns the row of id in items, or nothing when items has no such
\* row, whatever item_versions holds
C28_ReadsLeaveStore ==
    [][/\ last'.op \in ReadOps => UNCHANGED store
       /\ \A id \in CallIds :
             (last'.op = "get" /\ Get(id)) =>
               /\ id \in DOMAIN items
                    => last'.result = Some(ItemOfRow(id, items[id]))
               /\ id \notin DOMAIN items => last'.result = None]_vars

\* C28 happens: get found nothing for a deleted item whose snapshot rows are
\* still in item_versions
C28_Witness ==
    /\ last.op = "get"
    /\ last.result = None
    /\ \E id \in CallIds :
          /\ last.id = Some(id)
          /\ id \notin DOMAIN items
          /\ SnapshotsOf(id) # <<>>

\* C23: init_schema on an existing store leaves snapshots, index, settings
\* and row counter unchanged, keeps every row of items with every value it
\* has, and gives the rows of a table without version column the version 1;
\* on a store whose items table has the column it changes nothing, so running
\* it again has no further effect
C23_InitSchemaIdempotent ==
    [][InitSchema =>
          /\ UNCHANGED <<item_versions, items_fts, settings, seq>>
          /\ DOMAIN items' = DOMAIN items
          /\ \A id \in DOMAIN items :
                /\ \A f \in DOMAIN items[id] : items'[id][f] = items[id][f]
                /\ DOMAIN items'[id] = DOMAIN items[id] \cup {"version"}
                /\ "version" \notin DOMAIN items[id] => items'[id].version = 1
          /\ Migrated'
          /\ Migrated => UNCHANGED store]_vars

\* C23 happens: the schema was initialised on a store that holds an item at
\* version 2 or later, its snapshot, and a setting
C23_Witness ==
    /\ last.op = "init_schema"
    /\ settings # {}
    /\ item_versions # <<>>
    /\ \E id \in DOMAIN items : items[id].version >= 2


C22_SingleWriterDense ==
    (DOMAIN pending = {"w1"} /\ pending["w1"] = None)
        => \A id \in DOMAIN items :
              LET snaps == SnapshotVersions(id)
              IN  /\ \A i, j \in 1 .. Len(snaps) : snaps[i] = snaps[j] => i = j
                  /\ {snaps[k] : k \in 1 .. Len(snaps)} \cup {items[id].version}
                        = 1 .. items[id].version

\* C22 happens with two processes: both read item 1 at version 1 before
\* either wrote, so both snapshots carry version 1 and version 2 is missing
\* although the item is at version 3
C22_Witness ==
    /\ DOMAIN pending = Writers
    /\ \A w \in Writers : pending[w] = None
    /\ 1 \in DOMAIN items
    /\ items[1].version = Len(SnapshotVersions(1)) + 1
    /\ SnapshotVersions(1) = <<1, 1>>


\* C33: list_by_category(c) returns every item of category c once and no
\* other item, each as the store holds it, in non-increasing updated_at
\* order, and as many items as count_by_category reports for c (none when
\* c has no row there)
C33_ListByCategory ==
    [][\A c \in Categories :
          (last'.op = "list_by_category" /\ ListByCategory(c)) =>
            LET r == last'.result
                members == {id \in DOMAIN items : items[id].category = as_str(c)}
            IN  /\ {r[k].id[1] : k \in 1 .. Len(r)} = members
                /\ Len(r) = Cardinality(members)
                /\ \A k \in 1 .. Len(r) :
                       /\ r[k] = ItemOfRow(r[k].id[1], items[r[k].id[1]])
                       /\ r[k].category = c
                /\ \A j, k \in 1 .. Len(r) :
                       j < k => r[j].updated_at[1] >= r[k].updated_at[1]
                /\ \A rows \in GroupRows :
                       LET pairs == {k \in 1 .. Len(rows) :
                                        from_str(rows[k][1]) = c}
                       IN  /\ pairs = {} => Len(r) = 0
                           /\ \A k \in pairs : Len(r) = rows[k][2]]_vars

\* C33 happens: the list of one category was read from a store that holds
\* an item of that category and a later item of another category, and only
\* the first was returned
C33_Witness ==
    /\ last.op = "list_by_category"
    /\ Len(last.result) = 1
    /\ DOMAIN items = {1, 2}
    /\ items[1].category # items[2].category
    /\ last.result[1].id = Some(1)
    /\ items[1].updated_at < items[2].updated_at

\* C34: after a successful restore_version(id, v) of an item of the store,
\* every user column of its row holds what get_version(id, v) returned for
\* that field before the call, and the version is one more than before; when
\* v was the current version the user columns are the ones the row had
C34_RestoreAllFields ==
    [][\A id \in DOMAIN items, v \in CallVersions :
          ( /\ last'.op = "restore_version"
            /\ last'.result = "Ok"
            /\ last'.id = Some(id)
            /\ last'.version = Some(v) )
          => \A old \in {get_version(id, v)} :
                /\ old # None
                /\ Fields(items'[id]) = RowFields(old[1])
                /\ items'[id].version = items[id].version + 1
                /\ v = items[id].version
                      => Fields(items'[id]) = Fields(items[id])]_vars

\* C34 happens: an item was renamed and given another content, and
\* restore_version(id, 1) brought back both the name and the content of
\* version 1
C34_Witness ==
    /\ last.op = "restore_version"
    /\ last.result = "Ok"
    /\ last.version = Some(1)
    /\ \E id \in DOMAIN items :
          /\ last.id = Some(id)
          /\ SnapshotVersions(id) = <<1, 2>>
          /\ SnapshotsOf(id)[1].name = items[id].name
          /\ SnapshotsOf(id)[1].content = items[id].content
          /\ SnapshotsOf(id)[2].name # items[id].name
          /\ SnapshotsOf(id)[2].content # items[id].content

\* C37: the row counter of items never goes down and no item or snapshot row
\* carries an id above it; a successful insert returns an id above the
\* counter, hence an id that no item has or had and that no snapshot row
\* names, and moves the counter to that id
C37_IdsNeverReused ==
    [][/\ seq' >= seq
       /\ \A id \in DOMAIN items : id <= seq
       /\ \A k \in 1 .. Len(item_versions) : item_versions[k].item_id <= seq
       /\ (last'.op = "insert" /\ last'.result = "Ok" /\ items' # items)
             => \E id \in DOMAIN items' :
                   /\ last'.id = Some(id)
                   /\ id > seq
                   /\ seq' = id
                   /\ id \notin DOMAIN items
                   /\ \A k \in 1 .. Len(item_versions') :
                          item_versions'[k].item_id # id
                   /\ DOMAIN items' = DOMAIN items \cup {id}]_vars

\* C37 happens: item 1 was updated and deleted, its snapshot row stayed, and
\* the next insert returned the id 2
C37_Witness ==
    /\ last.op = "insert"
    /\ last.result = "Ok"
    /\ last.id = Some(MaxId)
    /\ DOMAIN items = {MaxId}
    /\ \E k \in 1 .. Len(item_versions) : item_versions[k].item_id < MaxId

\* C38: when a tag of the sidebar is selected, the items listed for it
\* include every item that has the tag among the trimmed, lower-cased pieces
\* of its tags column
C38_NoFalseNegatives ==
    [][\A k \in 1 .. MaxSidebarItems + 1 :
          (last'.op = "list_by_tag" /\ SelectTag(k)) =>
            \A id \in DOMAIN items :
                ( /\ items[id].tags # NULL
                  /\ \E j \in DOMAIN TagsOfColumn(items[id].tags) :
                        TagsOfColumn(items[id].tags)[j] = last.result[k][1] )
                => \E m \in DOMAIN last'.result : last'.result[m].id = Some(id)]_vars

\* C36: an item leaves the store only in a step taken while a delete dialog
\* with the confirm option selected is open, and it is the item the dialog
\* names; a dialog opens with cancel selected; while a dialog is open a step
\* changes the dialog but neither the edit state, the pending key nor the
\* popup, and it changes nothing in the store while cancel is selected
C36_DeleteOnlyConfirmed ==
    [][/\ \A id \in DOMAIN items \ DOMAIN items' :
             /\ app.confirm_dialog # None
             /\ app.confirm_dialog[1].title = " Confirm Delete "
             /\ app.confirm_dialog[1].selected
             /\ app.confirm_dialog[1].message =
                    <<"Are you sure you want to delete '", items[id].name, "'?">>
             /\ app'.confirm_dialog = None
             /\ DOMAIN items \ DOMAIN items' = {id}
       /\ (app.confirm_dialog = None /\ app'.confirm_dialog # None) =>
             ~app'.confirm_dialog[1].selected
       /\ app.confirm_dialog # None =>
             /\ app'.edit_state = app.edit_state
             /\ app'.pending_key = app.pending_key
             /\ app'.show_ai_popup = app.show_ai_popup
             /\ app'.screen \in {app.screen, "Main"}
             /\ ~app.confirm_dialog[1].selected => UNCHANGED store
       /\ (app'.confirm_dialog # None
              /\ app'.confirm_dialog[1].title = " Confirm Delete ") =>
             /\ selected_item(app') # None
             /\ app'.confirm_dialog[1].message =
                    <<"Are you sure you want to delete '",
                      selected_item(app')[1].name, "'?">>]_vars

\* the second of two items was deleted through its dialog and the first is
\* still stored
C36_Witness ==
    /\ last.op = "delete"
    /\ last.id = Some(2)
    /\ DOMAIN items = {1}
    /\ app.confirm_dialog = None
    /\ Len(app.items) = 1

\* C31: validate reports an error exactly when the trimmed name is empty, or
\* the trimmed content is empty, or the category is Agent or Skill and the
\* description is absent or blank; and a step taken on the edit screen with
\* such an item changes no table, and when it is the save it records no
\* insert and no update, shows the errors and leaves the edit screen open
C31_RejectedSave ==
    [][LET item == app.edit_state.item
           invalid ==
               \/ trim(Chars[item.name]) = <<>>
               \/ trim(Chars[item.content]) = <<>>
               \/ /\ item.category \in {"Agent", "Skill"}
                  /\ \/ item.description = NULL
                     \/ trim(Chars[item.description]) = <<>>
       IN  /\ (validate(item) # <<>>) <=> invalid
           /\ (app.screen = "Edit" /\ invalid) =>
                 /\ UNCHANGED store
                 /\ last' # last =>
                       /\ last'.op = "save_item"
                       /\ last'.result = "Validation"
                       /\ app'.screen = "Edit"
                       /\ app'.status_message # None]_vars

\* the save of a stored Agent item whose description was replaced by a blank
\* was rejected
C31_Witness ==
    /\ last.op = "save_item"
    /\ last.id = Some(2)
    /\ app.screen = "Edit"
    /\ app.status_message = Some(<<"Description is required for this category">>)
    /\ app.edit_state.item.description = " "
    /\ items[2].description = "d"

\* C32: a step of an LLM thread changes no table, no record of a store call
\* and no field of App; a step that changes a table starts or ends no thread
\* and is an insert, update or delete issued by a key handler; and a
\* response becomes the content of a stored item only through the update or
\* insert of the item on the edit screen, which already holds the response
C32_ThreadNeverTouchesStore ==
    [][/\ (llm' # llm /\ Len(llm') = Len(llm)) =>
             UNCHANGED <<store, last, app>>
       /\ store' # store =>
             /\ llm' = llm
             /\ last'.op \in {"insert", "update", "delete"}
             /\ app.llm_receiver = app'.llm_receiver
             /\ app.ai_popup_state = app'.ai_popup_state
       /\ \A id \in DOMAIN items', c \in DOMAIN llm :
             (/\ items'[id].content = Response(c)
              /\ id \in DOMAIN items => items[id].content # Response(c)) =>
                /\ last'.op \in {"insert", "update"}
                /\ last'.id = Some(id)
                /\ app.screen = "Edit"
                /\ app.edit_state.item.content = Response(c)]_vars

\* the response of the first thread was applied to the first item and saved
C32_Witness ==
    /\ last.op = "update"
    /\ last.id = Some(1)
    /\ items[1].content = Response(1)
    /\ llm[1] = [item |-> Some(1), state |-> "ok"]
    /\ app.screen = "Main"

\* C35: a result offered in the AI popup is the response to a request that
\* was made for the item the popup is open for
C35_ResultForEditedItem ==
    (app.show_ai_popup /\ app.ai_popup_state.result # None) =>
        \E c \in DOMAIN llm :
            /\ app.ai_popup_state.result = Some(Response(c))
            /\ llm[c].item = app.edit_state.item.id

====
